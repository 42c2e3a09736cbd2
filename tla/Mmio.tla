-------------------------------- MODULE Mmio --------------------------------
(***************************************************************************)
(* The mapped-region engine of mmio.c for one region (mmio_t) whose       *)
(* mapping is covered by a single leaf table of the radix log (the root    *)
(* "skip" table of init_radixlog for a file no larger than LMD_SHIFT).     *)
(* Foreground threads run mmio_write, mmio_read and commit_mmio (fsync);   *)
(* one background thread runs checkpoint_thread_func.  Locks:              *)
(*   - the region rwlock (glibc default: a reader is admitted whenever no  *)
(*     writer holds it), with read holds counted per holder;             *)
(*   - one rwlock per log record (idx_entry_t), taken with try-locks.     *)
(* Bytes of the file are positions 0 .. FileSize-1; a write stores its    *)
(* own id in every byte it covers, so the image, the logs and the reads   *)
(* record which write a byte came from.  Junk stands for bytes the code   *)
(* copies from outside the caller's buffer or the mapping, or for the     *)
(* stale content of a recycled log buffer.                                *)
(***************************************************************************)
EXTENDS LogGeometry, Naturals, Sequences, FiniteSets

CONSTANTS
    Threads,        \* foreground threads calling read/write/fsync
    Ckpt,           \* the checkpoint thread
    FileSize,       \* bytes mapped (mmio->end - mmio->start)
    MaxLen,         \* largest request length
    MaxOps,         \* bound: read/write/fsync calls in a behaviour
    MaxPasses,      \* bound: passes of the checkpoint thread
    EpochBits,      \* width of idx_entry_t.epoch (20 in the code)
    DefaultPolicy,  \* DEFAULT_POLICY of config.h
    InitFsize,      \* file sizes at open (mmio->fsize), a subset of 0 .. FileSize
    None, NoRec, Junk

ASSUME FileSize = TableSpan
ASSUME MaxLen \in 1 .. FileSize /\ MaxOps \in Nat /\ MaxPasses \in Nat
ASSUME EpochBits \in Nat \ {0}
ASSUME InitFsize \subseteq 0 .. FileSize

UNDO == 0
REDO == 1
ASSUME DefaultPolicy \in {UNDO, REDO}
HybridWriteRatio == 40          \* HYBRID_WRITE_RATIO
Unset   == NrLogSizes           \* table->log_size before get_log_size fixes it
Slots   == 0 .. NrEntries(0) - 1
LogDom  == 0 .. TableSpan - 1
Holders == Threads \cup {Ckpt}
Vals    == 0 .. MaxOps
Ep(e)   == e % 2 ^ EpochBits    \* storing an epoch into the 20-bit field

VARIABLES
    image,      \* the mapped file: [0 .. FileSize-1 -> Vals \cup {Junk}]
    fsize,      \* mmio->fsize
    epoch,      \* mmio->epoch
    policy,     \* mmio->policy
    nread,      \* mmio->read
    nwrite,     \* mmio->write
    logSize,    \* log_size of the leaf table
    rec,        \* table->entries: [Slots -> record or NoRec]
    wlock,      \* writer of each record's rwlock, or None
    rlock,      \* readers of each record's rwlock
    rwW,        \* writer of the region rwlock, or None
    rwR,        \* read holds of the region rwlock per holder
    pc, op,     \* per foreground thread: program point and current call
    cur,        \* LOCK_ENTRIES cursor [off, n]
    held,       \* entries_head: locked slots, most recently locked first
    ret,        \* bytes mmio_write reports
    res,        \* bytes mmio_read copied into the caller's buffer
    ck,         \* checkpoint thread: [pc, epoch, off, i, passes]
    halted,     \* "no", or why the process stopped
    ops,        \* calls started so far
    recEpoch,   \* ghost: untruncated epoch each record was (re)started in
    cimage,     \* ghost: file content at the last fsync
    latest      \* ghost: id of the last write whose body covered each byte

vars == <<image, fsize, epoch, policy, nread, nwrite, logSize, rec, wlock, rlock,
          rwW, rwR, pc, op, cur, held, ret, res, ck, halted, ops, recEpoch, cimage, latest>>

Record == [epoch : 0 .. 2 ^ EpochBits - 1, offset : LogDom, len : 0 .. TableSpan,
           policy : {UNDO, REDO}, dst : (0 .. FileSize - 1) \cup {None},
           log : [LogDom -> Vals \cup {Junk}]]

ImageAt(img, a) == IF a < FileSize THEN img[a] ELSE Junk
MinOf(a, b)     == IF a < b THEN a ELSE b

\* The slot whose record governs file byte a, once the table is sized.
SlotOf(a) == TableIndex(logSize, a)

\* The bytes a record says it logged, as file addresses.
Covers(r) == IF r = NoRec \/ r.len = 0 \/ r.dst = None THEN {}
             ELSE { a \in 0 .. FileSize - 1 : r.dst + r.offset <= a /\ a < r.dst + r.offset + r.len }

(***************************************************************************)
(* The file as a reader should see it: under REDO a logged byte overrides *)
(* the image.                                                              *)
(***************************************************************************)
Logical == [a \in 0 .. FileSize - 1 |->
              IF \E i \in Slots : a \in Covers(rec[i]) /\ rec[i].policy = REDO
              THEN LET i == CHOOSE i \in Slots : a \in Covers(rec[i]) /\ rec[i].policy = REDO
                   IN rec[i].log[a - rec[i].dst]
              ELSE image[a]]

Init ==
    /\ image = [a \in 0 .. FileSize - 1 |-> 0]
    /\ fsize \in InitFsize
    /\ epoch = 0
    /\ policy = DefaultPolicy
    /\ nread = 0 /\ nwrite = 0
    /\ logSize = Unset
    /\ rec = [i \in Slots |-> NoRec]
    /\ wlock = [i \in Slots |-> None]
    /\ rlock = [i \in Slots |-> {}]
    /\ rwW = None
    /\ rwR = [h \in Holders |-> 0]
    /\ pc = [t \in Threads |-> "idle"]
    /\ op = [t \in Threads |-> [kind |-> "none", off |-> 0, len |-> 0, id |-> 0]]
    /\ cur = [t \in Threads |-> [off |-> 0, n |-> 0]]
    /\ held = [t \in Threads |-> <<>>]
    /\ ret = [t \in Threads |-> 0]
    /\ res = [t \in Threads |-> <<>>]
    /\ ck = [pc |-> "sleep", epoch |-> 0, off |-> 0, i |-> 0, passes |-> 0]
    /\ halted = "no"
    /\ ops = 0
    /\ recEpoch = [i \in Slots |-> 0]
    /\ cimage = image
    /\ latest = image

-----------------------------------------------------------------------------
(***************************************************************************)
(* mmio_write and mmio_read: RWLOCK_READ_LOCK of the region.  The model's *)
(* requests stay inside the mapping, so check_expend is false and         *)
(* expend_mmio is not taken (see the README).                             *)
(***************************************************************************)
Begin(t, kind, o, l) ==
    /\ halted = "no" /\ pc[t] = "idle" /\ ops < MaxOps
    /\ rwW = None
    /\ rwR' = [rwR EXCEPT ![t] = @ + 1]
    /\ op' = [op EXCEPT ![t] = [kind |-> kind, off |-> o, len |-> l, id |-> ops + 1]]
    /\ cur' = [cur EXCEPT ![t] = [off |-> o, n |-> l]]
    /\ pc' = [pc EXCEPT ![t] = IF kind = "write" THEN "w_lock" ELSE "r_lock"]
    /\ ops' = ops + 1
    /\ UNCHANGED <<image, fsize, epoch, policy, nread, nwrite, logSize, rec, wlock,
                   rlock, rwW, held, ret, res, ck, halted, recEpoch, cimage, latest>>

\* read() and write() of file.c start at the descriptor's position, which
\* lseek and earlier calls keep at or below fsize (lseek refuses a target
\* beyond it); requests stay inside the mapping.
\* Mutation: lseek without its bound check, so a write may start anywhere
\* in the mapping.
BeginWriteAnyOffset(t) ==
    \E o \in 0 .. FileSize - 1, l \in 1 .. MaxLen :
        o + l <= FileSize /\ Begin(t, "write", o, l)

BeginWrite(t) ==
    \E o \in 0 .. fsize, l \in 1 .. MaxLen :
        o + l <= FileSize /\ Begin(t, "write", o, l)

BeginRead(t) ==
    \E o \in 0 .. fsize, l \in 1 .. MaxLen :
        o + l <= FileSize /\ Begin(t, "read", o, l)

(***************************************************************************)
(* One iteration of LOCK_ENTRIES: get_log_size fixes the table's granule  *)
(* on first use; get_log_entry installs a fresh record by CAS when the    *)
(* slot is empty; the try-lock spins until it succeeds (the step is       *)
(* enabled only then).  The record is pushed on the front of the list.    *)
(***************************************************************************)
NewRecord == [epoch |-> Ep(epoch), offset |-> 0, len |-> 0, policy |-> UNDO,
              dst |-> None, log |-> [p \in LogDom |-> Junk]]

LockFree(kind, i) ==
    /\ wlock[i] = None
    /\ kind = "write" => rlock[i] = {}

\* Mutation: the cursor advances by a whole granule, ignoring the offset
\* inside it.
LockEntryWholeGranule(t) ==
    /\ halted = "no" /\ pc[t] \in {"w_lock", "r_lock"}
    /\ LET off == cur[t].off
           n   == cur[t].n
           s   == IF logSize = Unset THEN set_log_size(off, n) ELSE logSize
           i   == TableIndex(s, off)
           lg  == LogSize(s)
           wr  == pc[t] = "w_lock"
       IN /\ LockFree(op[t].kind, i)
          /\ logSize' = s
          /\ IF rec[i] = NoRec
             THEN /\ rec' = [rec EXCEPT ![i] = NewRecord]
                  /\ recEpoch' = [recEpoch EXCEPT ![i] = epoch]
             ELSE UNCHANGED <<rec, recEpoch>>
          /\ wlock' = IF wr THEN [wlock EXCEPT ![i] = t] ELSE wlock
          /\ rlock' = IF wr THEN rlock ELSE [rlock EXCEPT ![i] = @ \cup {t}]
          /\ held' = [held EXCEPT ![t] = <<i>> \o @]
          /\ cur' = [cur EXCEPT ![t] = [off |-> off + lg, n |-> n - lg]]
          /\ pc' = [pc EXCEPT ![t] = IF n - lg > 0 THEN pc[t]
                                     ELSE IF wr THEN "w_body" ELSE "r_body"]
    /\ UNCHANGED <<image, fsize, epoch, policy, nread, nwrite, rwW, rwR, op, ret,
                   res, ck, halted, ops, cimage, latest>>

LockEntry(t) ==
    /\ halted = "no" /\ pc[t] \in {"w_lock", "r_lock"}
    /\ LET off == cur[t].off
           n   == cur[t].n
           s   == IF logSize = Unset THEN set_log_size(off, n) ELSE logSize
           i   == TableIndex(s, off)
           lg  == LogSize(s) - LogOffset(off, s)
           wr  == pc[t] = "w_lock"
       IN /\ LockFree(op[t].kind, i)
          /\ logSize' = s
          /\ IF rec[i] = NoRec
             THEN /\ rec' = [rec EXCEPT ![i] = NewRecord]
                  /\ recEpoch' = [recEpoch EXCEPT ![i] = epoch]
             ELSE UNCHANGED <<rec, recEpoch>>
          /\ wlock' = IF wr THEN [wlock EXCEPT ![i] = t] ELSE wlock
          /\ rlock' = IF wr THEN rlock ELSE [rlock EXCEPT ![i] = @ \cup {t}]
          /\ held' = [held EXCEPT ![t] = <<i>> \o @]
          /\ cur' = [cur EXCEPT ![t] = [off |-> off + lg, n |-> n - lg]]
          /\ pc' = [pc EXCEPT ![t] = IF n - lg > 0 THEN pc[t]
                                     ELSE IF wr THEN "w_body" ELSE "r_body"]
    /\ UNCHANGED <<image, fsize, epoch, policy, nread, nwrite, rwW, rwR, op, ret,
                   res, ck, halted, ops, cimage, latest>>

(***************************************************************************)
(* checkpoint_entry: a REDO record is written back, then the record is    *)
(* restarted empty in the current epoch and policy.                       *)
(***************************************************************************)
FlushRecord(img, r) ==
    [a \in DOMAIN img |-> IF a \in Covers(r) THEN r.log[a - r.dst] ELSE img[a]]

checkpoint_entry(img, r) ==
    <<IF r.policy = REDO THEN FlushRecord(img, r) ELSE img,
      [r EXCEPT !.epoch = Ep(epoch), !.policy = policy, !.len = 0, !.offset = 0]>>

\* The byte the caller's buffer holds at file address a.
Src(t, a) == IF a - op[t].off < op[t].len THEN op[t].id ELSE Junk

(***************************************************************************)
(* One iteration of the logging loop of mmio_write for record slot e.     *)
(* st carries the loop's variables: the records, the image, n, off (dst   *)
(* and src move with off) and ret.  n is only ever lowered, never reset   *)
(* from what remains of the request.                                      *)
(***************************************************************************)
LogOne(t, e, st) ==
    LET stale == st.rec[e].epoch < epoch
        cp    == checkpoint_entry(st.image, st.rec[e])
        img   == IF stale THEN cp[1] ELSE st.image
        r     == IF stale THEN cp[2] ELSE st.rec[e]
        g     == LogSize(logSize)
        lo    == LogOffset(st.off, logSize)
        n     == MinOf(st.n, g - lo)
        base  == st.off - lo
        logd  == [p \in LogDom |->
                    IF lo <= p /\ p < lo + n
                    THEN IF policy = UNDO THEN ImageAt(img, base + p) ELSE Src(t, base + p)
                    ELSE r.log[p]]
        sp    == MergeSpan(r.offset, r.len, lo, n, g)
        gp    == MergeGap(r.offset, r.len, lo, n, g)
        fill  == [p \in LogDom |->
                    IF gp[1] <= p /\ p < gp[1] + gp[2] THEN ImageAt(img, base + p) ELSE logd[p]]
        r2    == IF r.len > 0 /\ n # g
                 THEN [r EXCEPT !.offset = sp[1], !.len = sp[2], !.log = fill]
                 ELSE [r EXCEPT !.offset = lo, !.len = n, !.dst = LogBase(st.off, logSize),
                                !.policy = policy, !.log = logd]
    IN [rec |-> [st.rec EXCEPT ![e] = r2], image |-> img, n |-> n,
        off |-> st.off + n, ret |-> st.ret + n,
        restarted |-> IF stale THEN st.restarted \cup {e} ELSE st.restarted]

RECURSIVE LogEntries(_, _, _)
LogEntries(t, es, st) ==
    IF es = <<>> THEN st ELSE LogEntries(t, Tail(es), LogOne(t, Head(es), st))

(***************************************************************************)
(* The body of mmio_write after LOCK_ENTRIES: the logging loop over the   *)
(* locked records in list order, increase_counter, and under UNDO the     *)
(* store of the new data into the mapping.                                *)
(***************************************************************************)
WriteBody(t) ==
    /\ halted = "no" /\ pc[t] = "w_body"
    /\ LET st  == LogEntries(t, held[t],
                    [rec |-> rec, image |-> image, n |-> op[t].len, off |-> op[t].off,
                     ret |-> 0, restarted |-> {}])
           new == [a \in DOMAIN image |->
                     IF op[t].off <= a /\ a < op[t].off + op[t].len THEN op[t].id
                     ELSE st.image[a]]
       IN /\ rec' = st.rec
          /\ image' = IF policy = UNDO THEN new ELSE st.image
          /\ ret' = [ret EXCEPT ![t] = st.ret]
          /\ recEpoch' = [i \in Slots |-> IF i \in st.restarted THEN epoch ELSE recEpoch[i]]
          /\ latest' = [a \in DOMAIN latest |->
                          IF op[t].off <= a /\ a < op[t].off + op[t].len THEN op[t].id
                          ELSE latest[a]]
    /\ nwrite' = nwrite + 1
    /\ pc' = [pc EXCEPT ![t] = "w_fsize"]
    /\ UNCHANGED <<fsize, epoch, policy, nread, logSize, wlock, rlock, rwW, rwR, op,
                   cur, held, res, ck, halted, ops, cimage>>

(***************************************************************************)
(* if (mmio->fsize < offset + ret) mmio->fsize = offset + ret;  the test  *)
(* and the store are separate accesses made under a shared lock.          *)
(***************************************************************************)
FsizeTest(t) ==
    /\ halted = "no" /\ pc[t] = "w_fsize"
    /\ pc' = [pc EXCEPT ![t] = IF fsize < op[t].off + ret[t] THEN "w_fsize_set"
                                                              ELSE "w_unlock"]
    /\ UNCHANGED <<image, fsize, epoch, policy, nread, nwrite, logSize, rec, wlock, rlock,
                   rwW, rwR, op, cur, held, ret, res, ck, halted, ops, recEpoch, cimage, latest>>

\* Mutation: the stored size is one past the end of the write.
FsizeStoreOffByOne(t) ==
    /\ halted = "no" /\ pc[t] = "w_fsize_set"
    /\ fsize' = op[t].off + ret[t] + 1
    /\ pc' = [pc EXCEPT ![t] = "w_unlock"]
    /\ UNCHANGED <<image, epoch, policy, nread, nwrite, logSize, rec, wlock, rlock,
                   rwW, rwR, op, cur, held, ret, res, ck, halted, ops, recEpoch, cimage, latest>>

FsizeStore(t) ==
    /\ halted = "no" /\ pc[t] = "w_fsize_set"
    /\ fsize' = op[t].off + ret[t]
    /\ pc' = [pc EXCEPT ![t] = "w_unlock"]
    /\ UNCHANGED <<image, epoch, policy, nread, nwrite, logSize, rec, wlock, rlock,
                   rwW, rwR, op, cur, held, ret, res, ck, halted, ops, recEpoch, cimage, latest>>

(***************************************************************************)
(* read_redolog: for each locked record, in list order, splice the log    *)
(* and the image.  n is recomputed from what is left of len.              *)
(***************************************************************************)
ReadOne(e, st) ==
    LET r   == rec[e]
        lo  == LogOffset(st.offset, logSize)
        n   == MinOf(st.len, LogSize(logSize) - lo)
        src == IF r.len > 0
               THEN PieceBytes(RedoPieces(st.offset, lo, n, r.offset, r.offset + r.len))
               ELSE [k \in 1 .. n |-> <<"img", st.offset + k - 1>>]
        val(b) == IF b[1] = "img" THEN ImageAt(image, b[2]) ELSE r.log[b[2]]
    IN [offset |-> st.offset + n, len |-> st.len - n,
        out |-> st.out \o [k \in 1 .. Len(src) |-> val(src[k])]]

RECURSIVE read_redolog(_, _)
read_redolog(es, st) ==
    IF es = <<>> THEN st ELSE read_redolog(Tail(es), ReadOne(Head(es), st))

(***************************************************************************)
(* The body of mmio_read after LOCK_ENTRIES: check_fsize shortens len to  *)
(* fsize - offset.  A negative result would become a huge size_t; it      *)
(* needs fsize to fall below the read's position, which FsizeNeverShrinks *)
(* rules out, so the step is guarded on it rather than modelled.          *)
(***************************************************************************)
ReadLen(t) ==
    IF fsize < op[t].off + op[t].len THEN fsize - op[t].off ELSE op[t].len

ReadBody(t) ==
    /\ halted = "no" /\ pc[t] = "r_body"
    /\ ReadLen(t) >= 0
    /\ res' = [res EXCEPT ![t] =
                 IF policy = UNDO
                 THEN [k \in 1 .. ReadLen(t) |-> image[op[t].off + k - 1]]
                 ELSE read_redolog(held[t], [offset |-> op[t].off, len |-> ReadLen(t),
                                             out |-> <<>>]).out]
    /\ nread' = nread + 1
    /\ pc' = [pc EXCEPT ![t] = "r_unlock"]
    /\ UNCHANGED <<image, fsize, epoch, policy, nwrite, logSize, rec, wlock, rlock, rwW,
                   rwR, op, cur, held, ret, ck, halted, ops, recEpoch, cimage, latest>>

\* Mutation: UNLOCK_ENTRIES skips the first entry of the list.
UnlockSkipFirst(t) ==
    /\ halted = "no" /\ pc[t] \in {"w_unlock", "r_unlock"}
    /\ LET mine == { held[t][k] : k \in 2 .. Len(held[t]) }
       IN /\ wlock' = [i \in Slots |-> IF i \in mine /\ wlock[i] = t THEN None ELSE wlock[i]]
          /\ rlock' = [i \in Slots |-> IF i \in mine THEN rlock[i] \ {t} ELSE rlock[i]]
    /\ rwR' = [rwR EXCEPT ![t] = @ - 1]
    /\ held' = [held EXCEPT ![t] = <<>>]
    /\ pc' = [pc EXCEPT ![t] = "idle"]
    /\ res' = [res EXCEPT ![t] = <<>>]
    /\ ret' = [ret EXCEPT ![t] = 0]
    /\ UNCHANGED <<image, fsize, epoch, policy, nread, nwrite, logSize, rec, rwW, op, cur,
                   ck, halted, ops, recEpoch, cimage, latest>>

\* UNLOCK_ENTRIES, then RWLOCK_UNLOCK of the region; the call returns.
Unlock(t) ==
    /\ halted = "no" /\ pc[t] \in {"w_unlock", "r_unlock"}
    /\ LET mine == { held[t][k] : k \in 1 .. Len(held[t]) }
       IN /\ wlock' = [i \in Slots |-> IF i \in mine /\ wlock[i] = t THEN None ELSE wlock[i]]
          /\ rlock' = [i \in Slots |-> IF i \in mine THEN rlock[i] \ {t} ELSE rlock[i]]
    /\ rwR' = [rwR EXCEPT ![t] = @ - 1]
    /\ held' = [held EXCEPT ![t] = <<>>]
    /\ pc' = [pc EXCEPT ![t] = "idle"]
    /\ res' = [res EXCEPT ![t] = <<>>]
    /\ ret' = [ret EXCEPT ![t] = 0]
    /\ UNCHANGED <<image, fsize, epoch, policy, nread, nwrite, logSize, rec, rwW, op, cur,
                   ck, halted, ops, recEpoch, cimage, latest>>

-----------------------------------------------------------------------------
(***************************************************************************)
(* commit_mmio (fsync): RWLOCK_WRITE_LOCK, epoch++, determine_policy,     *)
(* RWLOCK_UNLOCK.  determine_policy computes the write ratio in integer   *)
(* arithmetic, resets the counters and, when the new policy differs from  *)
(* the current one, calls checkpoint_mmio; it never stores the new policy.*)
(***************************************************************************)
BeginCommit(t) ==
    /\ halted = "no" /\ pc[t] = "idle" /\ ops < MaxOps
    /\ op' = [op EXCEPT ![t] = [kind |-> "fsync", off |-> 0, len |-> 0, id |-> ops + 1]]
    /\ pc' = [pc EXCEPT ![t] = "c_lock"]
    /\ ops' = ops + 1
    /\ UNCHANGED <<image, fsize, epoch, policy, nread, nwrite, logSize, rec, wlock, rlock,
                   rwW, rwR, cur, held, ret, res, ck, halted, recEpoch, cimage, latest>>

CommitLock(t) ==
    /\ halted = "no" /\ pc[t] = "c_lock"
    /\ rwW = None /\ \A h \in Holders : rwR[h] = 0
    /\ rwW' = t
    /\ pc' = [pc EXCEPT ![t] = "c_body"]
    /\ UNCHANGED <<image, fsize, epoch, policy, nread, nwrite, logSize, rec, wlock, rlock,
                   rwR, op, cur, held, ret, res, ck, halted, ops, recEpoch, cimage, latest>>

\* new_policy of determine_policy, for total_cnt = r + w > 0
NewPolicy(r, w) ==
    IF (w \div (r + w)) * 100 > HybridWriteRatio THEN REDO ELSE UNDO

\* No read or write since the last fsync: determine_policy does nothing.
CommitQuiet(t) ==
    /\ halted = "no" /\ pc[t] = "c_body"
    /\ nread + nwrite = 0
    /\ epoch' = epoch + 1
    /\ cimage' = Logical
    /\ pc' = [pc EXCEPT ![t] = "c_unlock"]
    /\ UNCHANGED <<image, fsize, policy, nread, nwrite, logSize, rec, wlock, rlock, rwW,
                   rwR, op, cur, held, ret, res, ck, halted, ops, recEpoch, latest>>

CommitSamePolicy(t) ==
    /\ halted = "no" /\ pc[t] = "c_body"
    /\ nread + nwrite > 0
    /\ NewPolicy(nread, nwrite) = policy
    /\ epoch' = epoch + 1
    /\ nread' = 0 /\ nwrite' = 0
    /\ cimage' = Logical
    /\ pc' = [pc EXCEPT ![t] = "c_unlock"]
    /\ UNCHANGED <<image, fsize, policy, logSize, rec, wlock, rlock, rwW, rwR, op, cur,
                   held, ret, res, ck, halted, ops, recEpoch, latest>>

\* checkpoint_mmio's RWLOCK_READ_LOCK on the region this thread holds for
\* writing fails with EDEADLK, and HANDLE_ERROR exits the process.
CommitPolicyChange(t) ==
    /\ halted = "no" /\ pc[t] = "c_body"
    /\ nread + nwrite > 0
    /\ NewPolicy(nread, nwrite) # policy
    /\ epoch' = epoch + 1
    /\ nread' = 0 /\ nwrite' = 0
    /\ halted' = "rdlock_edeadlk"
    /\ UNCHANGED <<image, fsize, policy, logSize, rec, wlock, rlock, rwW, rwR, pc, op, cur,
                   held, ret, res, ck, ops, recEpoch, cimage, latest>>

CommitUnlock(t) ==
    /\ halted = "no" /\ pc[t] = "c_unlock"
    /\ rwW' = None
    /\ pc' = [pc EXCEPT ![t] = "idle"]
    /\ UNCHANGED <<image, fsize, epoch, policy, nread, nwrite, logSize, rec, wlock, rlock,
                   rwR, op, cur, held, ret, res, ck, halted, ops, recEpoch, cimage, latest>>

-----------------------------------------------------------------------------
(***************************************************************************)
(* checkpoint_thread_func: after each sleep, checkpoint_mmio walks the    *)
(* mapping one leaf table at a time.  current_epoch is read once, without *)
(* the lock.  Each table is visited under RWLOCK_READ_LOCK followed by a  *)
(* successful pthread_rwlock_tryrdlock (two read holds) and one           *)
(* RWLOCK_UNLOCK.                                                         *)
(***************************************************************************)
ckVars == <<image, fsize, epoch, policy, nread, nwrite, logSize, rec, wlock, rlock,
            rwW, rwR, pc, op, cur, held, ret, res, halted, ops, recEpoch, cimage, latest>>

CkWake ==
    /\ halted = "no" /\ ck.pc = "sleep" /\ ck.passes < MaxPasses
    /\ ck' = [pc |-> "loop", epoch |-> epoch, off |-> 0, i |-> 0, passes |-> ck.passes + 1]
    /\ UNCHANGED ckVars

CkPassDone ==
    /\ halted = "no" /\ ck.pc = "loop" /\ ck.off >= FileSize
    /\ ck' = [ck EXCEPT !.pc = "sleep"]
    /\ UNCHANGED ckVars

\* find_log_table returns the root table; its log_size is read unlocked.
CkLockTable ==
    /\ halted = "no" /\ ck.pc = "loop" /\ ck.off < FileSize
    /\ rwW = None
    /\ logSize # Unset
    /\ rwR' = [rwR EXCEPT ![Ckpt] = @ + 2]
    /\ ck' = [ck EXCEPT !.pc = "scan", !.i = 0]
    /\ UNCHANGED <<image, fsize, epoch, policy, nread, nwrite, logSize, rec, wlock, rlock,
                   rwW, pc, op, cur, held, ret, res, halted, ops, recEpoch, cimage, latest>>

\* Before the first write the table's log_size is NR_LOG_SIZES and
\* NR_ENTRIES(log_size) shifts by a negative amount: the loop bound is
\* undefined; on x86-64 it is 1 << 63 and the scan runs off the table.
CkUnsizedTable ==
    /\ halted = "no" /\ ck.pc = "loop" /\ ck.off < FileSize
    /\ rwW = None
    /\ logSize = Unset
    /\ halted' = "ub_shift"
    /\ UNCHANGED <<image, fsize, epoch, policy, nread, nwrite, logSize, rec, wlock, rlock,
                   rwW, rwR, pc, op, cur, held, ret, res, ck, ops, recEpoch, cimage, latest>>

\* Mutations: the epoch test admits the current epoch; the try-lock is
\* dropped.
ReclaimableCurrentEpoch(i) ==
    /\ rec[i] # NoRec
    /\ rec[i].epoch <= ck.epoch
    /\ LockFree("write", i)

ReclaimableWithoutTryLock(i) ==
    /\ rec[i] # NoRec
    /\ rec[i].epoch < ck.epoch

Reclaimable(i) ==
    /\ rec[i] # NoRec
    /\ rec[i].epoch < ck.epoch
    /\ LockFree("write", i)

CkTryLock ==
    /\ halted = "no" /\ ck.pc = "scan" /\ ck.i < NrEntries(logSize)
    /\ Reclaimable(ck.i)
    /\ wlock' = [wlock EXCEPT ![ck.i] = Ckpt]
    /\ ck' = [ck EXCEPT !.pc = "reclaim"]
    /\ UNCHANGED <<image, fsize, epoch, policy, nread, nwrite, logSize, rec, rlock,
                   rwW, rwR, pc, op, cur, held, ret, res, halted, ops, recEpoch, cimage, latest>>

CkSkip ==
    /\ halted = "no" /\ ck.pc = "scan" /\ ck.i < NrEntries(logSize)
    /\ ~ Reclaimable(ck.i)
    /\ ck' = [ck EXCEPT !.i = @ + 1]
    /\ UNCHANGED ckVars

\* Write back a REDO record, clear the slot and free the record; the
\* record's lock is not released (the next allocation re-initialises it).
CkReclaim ==
    /\ halted = "no" /\ ck.pc = "reclaim"
    /\ image' = IF rec[ck.i].policy = REDO THEN FlushRecord(image, rec[ck.i]) ELSE image
    /\ rec' = [rec EXCEPT ![ck.i] = NoRec]
    /\ wlock' = [wlock EXCEPT ![ck.i] = None]
    /\ ck' = [ck EXCEPT !.pc = "scan", !.i = @ + 1]
    /\ UNCHANGED <<fsize, epoch, policy, nread, nwrite, logSize, rlock, rwW, rwR, pc, op,
                   cur, held, ret, res, halted, ops, recEpoch, cimage, latest>>

\* One RWLOCK_UNLOCK for the two read holds; move to the next table.
CkUnlockTable ==
    /\ halted = "no" /\ ck.pc = "scan" /\ ck.i = NrEntries(logSize)
    /\ rwR' = [rwR EXCEPT ![Ckpt] = @ - 1]
    /\ ck' = [ck EXCEPT !.pc = "loop", !.off = @ + NrEntries(logSize) * LogSize(logSize)]
    /\ UNCHANGED <<image, fsize, epoch, policy, nread, nwrite, logSize, rec, wlock, rlock,
                   rwW, pc, op, cur, held, ret, res, halted, ops, recEpoch, cimage, latest>>

-----------------------------------------------------------------------------
ThreadStep(t) ==
    \/ LockEntry(t) \/ WriteBody(t) \/ FsizeTest(t) \/ FsizeStore(t)
    \/ ReadBody(t) \/ Unlock(t)
    \/ CommitLock(t) \/ CommitQuiet(t) \/ CommitSamePolicy(t) \/ CommitPolicyChange(t)
    \/ CommitUnlock(t)

CkStep ==
    \/ CkWake \/ CkPassDone \/ CkLockTable \/ CkUnsizedTable
    \/ CkTryLock \/ CkSkip \/ CkReclaim \/ CkUnlockTable

Next ==
    \/ \E t \in Threads : BeginWrite(t) \/ BeginRead(t) \/ BeginCommit(t) \/ ThreadStep(t)
    \/ CkStep

\* Threads and the checkpoint thread are scheduled fairly by the OS; a call
\* is never forced to be made.
Fairness == (\A t \in Threads : WF_vars(ThreadStep(t))) /\ WF_vars(CkStep)

Spec == Init /\ [][Next]_vars /\ Fairness

-----------------------------------------------------------------------------
PCs == {"idle", "w_lock", "w_body", "w_fsize", "w_fsize_set", "w_unlock",
        "r_lock", "r_body", "r_unlock", "c_lock", "c_body", "c_unlock"}

TypeOK ==
    /\ image \in [0 .. FileSize - 1 -> Vals \cup {Junk}]
    /\ fsize \in 0 .. FileSize
    /\ epoch \in 0 .. MaxOps /\ policy \in {UNDO, REDO}
    /\ nread \in 0 .. MaxOps /\ nwrite \in 0 .. MaxOps
    /\ logSize \in LogSizes \cup {Unset}
    /\ rec \in [Slots -> Record \cup {NoRec}]
    /\ wlock \in [Slots -> Holders \cup {None}]
    /\ rlock \in [Slots -> SUBSET Threads]
    /\ rwW \in Threads \cup {None}
    /\ rwR \in [Holders -> 0 .. 2 * MaxPasses + MaxOps]
    /\ pc \in [Threads -> PCs]
    /\ held \in [Threads -> Seq(Slots)]
    /\ ck.pc \in {"sleep", "loop", "scan", "reclaim"} /\ ck.passes \in 0 .. MaxPasses
    /\ halted \in {"no", "rdlock_edeadlk", "ub_shift"}
    /\ ops \in 0 .. MaxOps

Mine(t)   == { held[t][k] : k \in 1 .. Len(held[t]) }

(***************************************************************************)
(* Every record a read or write has put on its entries list stays         *)
(* installed in its slot and locked by that thread until UNLOCK_ENTRIES:  *)
(* the checkpoint thread's try-lock and a concurrent LOCK_ENTRIES never   *)
(* take or free a record another thread holds.                            *)
(***************************************************************************)
HeldEntriesLocked ==
    \A t \in Threads : \A i \in Mine(t) :
        /\ rec[i] # NoRec
        /\ op[t].kind = "write" => wlock[i] = t
        /\ op[t].kind = "read"  => t \in rlock[i] /\ wlock[i] = None

(***************************************************************************)
(* A byte of the mapping, or a record already installed, changes only in  *)
(* a step taken while the record of that byte's slot is write-locked:     *)
(* the logging loop of mmio_write and the write-back of the checkpoint    *)
(* touch only granules whose records their thread has locked.             *)
(***************************************************************************)
NoUnlockedModification ==
    [][ /\ \A i \in Slots : rec[i] # NoRec /\ rec'[i] # rec[i] => wlock[i] # None
        /\ \A a \in DOMAIN image : image'[a] # image[a] => wlock[SlotOf(a)] # None
      ]_vars

(***************************************************************************)
(* checkpoint_mmio frees only records of an epoch that fsync has already  *)
(* closed: a record (re)started in the current epoch is never reclaimed.  *)
(***************************************************************************)
CheckpointSparesCurrentEpoch ==
    [][ \A i \in Slots : rec[i] # NoRec /\ rec'[i] = NoRec => recEpoch[i] < epoch ]_vars

(***************************************************************************)
(* mmio->fsize never decreases, although mmio_write tests and stores it   *)
(* under the shared region lock only: a write starts at the descriptor's  *)
(* position (at most fsize) and so holds the record lock of the granule   *)
(* that contains byte fsize whenever it extends the file.                 *)
(***************************************************************************)
FsizeNeverShrinks == [][fsize' >= fsize]_vars

(***************************************************************************)
(* Every read or write that has taken the region lock returns, unless the *)
(* process has exited: no two threads wait on each other's record locks,  *)
(* and the checkpoint thread never holds one forever.                     *)
(***************************************************************************)
IoCompletes ==
    \A t \in Threads :
        pc[t] \in {"w_lock", "r_lock"} ~> (pc[t] = "idle" \/ halted # "no")

-----------------------------------------------------------------------------
(* Properties the code is found to violate (see the README).              *)

(***************************************************************************)
(* An fsync that has been called returns (or the process has exited).     *)
(***************************************************************************)
CommitCompletes ==
    \A t \in Threads : pc[t] = "c_lock" ~> (pc[t] = "idle" \/ halted # "no")

(***************************************************************************)
(* fsync never terminates the process.                                    *)
(***************************************************************************)
FsyncNeverAborts == halted # "rdlock_edeadlk"

(***************************************************************************)
(* The checkpoint thread never scans a table whose size is undefined.     *)
(***************************************************************************)
CheckpointNeverScansUnsizedTable == halted # "ub_shift"

(***************************************************************************)
(* mmio_write returns the number of bytes it was asked to write.          *)
(***************************************************************************)
WriteReturnsRequested ==
    \A t \in Threads : pc[t] = "w_fsize" => ret[t] = op[t].len

(***************************************************************************)
(* Under UNDO every byte logged in the current epoch holds the value the  *)
(* byte had at the last fsync, so rolling the logs back restores it.      *)
(***************************************************************************)
UndoLogHoldsCommittedBytes ==
    \A i \in Slots :
        (rec[i] # NoRec /\ rec[i].policy = UNDO /\ recEpoch[i] = epoch) =>
            \A a \in Covers(rec[i]) : rec[i].log[a - rec[i].dst] = cimage[a]


(***************************************************************************)
(* A read returns, for every byte it copies, the data of the last write   *)
(* to that byte (the spec's read-your-writes under either policy).        *)
(***************************************************************************)
ReadSeesLatestWrites ==
    \A t \in Threads : pc[t] = "r_unlock" =>
        \A k \in 1 .. Len(res[t]) : res[t][k] = latest[op[t].off + k - 1]
=============================================================================
