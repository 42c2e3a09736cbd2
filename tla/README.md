# TLA+ models of libnvmmio

libnvmmio is a user-level library. It intercepts `open`, `read`, `write`,
`fsync` and related calls on files of a persistent-memory file system. It
serves those calls from a memory mapping of the file, which it protects with
per-granule logs:

* **UNDO** mode copies the old bytes into the log before it writes the mapping.
* **REDO** mode writes the new bytes into the log and writes them back later.

This directory holds TLA+ modules that model the library's code in
`src/src/`. It also holds the TLC configurations that check them.

## The system's parts and how they interact

| Part | Source | Role |
|---|---|---|
| File interception | `file.c` | Looks up the `file_t` of a descriptor (`file_hash.c`). Holds `file->mutex`, calls `mmio_read`, `mmio_write` or `commit_mmio` at `file->pos`, then advances the position. `lseek` refuses positions beyond `mmio->fsize`, but not negative ones. |
| Mapped-region engine | `mmio.c` | `mmio_write`, `mmio_read`, `commit_mmio` (fsync) and the checkpoint thread, all on one `mmio_t` per inode. |
| Log index | `radixlog.c/.h` | A radix tree from file offset to a leaf table of `idx_entry_t *` records. `get_log_table` walks from `root->skip` and installs a missing level with `ALLOC_TABLE` (by CAS). It keeps the last leaf found in a one-entry cache (`prev_table`, `prev_table_index`) that all threads of the `mmio_t` share. The first access to a table fixes its granule size (`get_log_size`, by CAS). The first access to a slot installs a record (`get_log_entry`, by CAS). |
| Pool allocator | `allocator.c/.h`, `slist.h` | Global free lists of tables, records, log buffers and `mmio_t`s. Each thread has a provider list and a collector list. |
| BRAVO lock | `bravo.c` | A reader-biased rwlock over a pthread rwlock. No code of the library calls it: the region lock is a plain pthread rwlock. |
| File hash | `file_hash.c` | Maps an inode to its shared `mmio_t`, with a reference count per `mmio_t`. `fd_table` maps a descriptor to its `file_t`. |

The engine works as follows.

**Write.** `mmio_write` takes the region read lock (`mmio->rwlock`). It then
runs `LOCK_ENTRIES`, which write-locks the record of every granule the
request touches, creating records as needed. Next it logs each granule:

* under UNDO it copies the old bytes into the log;
* under REDO it copies the new bytes into the log, and if the record already
  holds data it merges the spans and backfills the gap from the file.

Under UNDO it then stores the new bytes into the mapping. Finally it updates
`fsize` and unlocks.

**Read.** `mmio_read` takes the same locks in read mode. Under UNDO it copies
from the mapping. Under REDO it splices log and mapping bytes (`read_redolog`).

**fsync.** `commit_mmio` takes the region write lock and increments
`mmio->epoch`. It then calls `determine_policy`, which may switch between UNDO
and REDO by calling `checkpoint_mmio`.

**Checkpoint.** The checkpoint thread wakes periodically and calls
`checkpoint_mmio`. This walks every leaf table. It try-locks each record of an
earlier epoch, writes the record back if it is REDO, and frees it.

## Modules

### `LogGeometry.tla`: pure arithmetic of the index and the interval logic

It translates these parts of the code as operators:

* `LOG_SHIFT`, `LOG_SIZE`, `NR_ENTRIES`, `TABLE_INDEX`, `LOG_OFFSET` and `LOG_MASK`;
* `set_log_size`, as a `RECURSIVE` loop;
* `check_log`, the six-case classification of a request against a logged span;
* the span that `mmio_write`'s merge leaves in a record, and the gap it backfills (`MergeSpan`, `MergeGap`);
* the sequence of copies that `read_redolog` makes for one record (`RedoPieces`).

The geometry is scaled down. `PageShift` stands for `PAGE_SHIFT` (12) and
`LmdShift` for `LMD_SHIFT` (21). The catalogue `LOG_4K .. LOG_2M` becomes
`0 .. NrLogSizes-1`, and `NrLogSizes` plays `NR_LOG_SIZES`, which means
"unset".

`MCLogGeometry.tla` checks these operators against reference definitions over
every input of the geometry. Each input is one initial state, and the
specification stutters.

### `Mmio.tla`: the engine

The model covers one inode whose file fits in one leaf table.

**Constants.** `Threads` are the application threads. Each stands for a
distinct descriptor on the same inode: `file->mutex` is per descriptor, so
threads using one descriptor are serialised. `Ckpt` is the checkpoint
thread.

**State.**

| Variable | Code |
|---|---|
| `image` | The mapped file bytes. A byte holds the id of the operation that wrote it. |
| `fsize`, `epoch`, `policy`, `nread`, `nwrite` | The `mmio_t` fields. |
| `logSize` | `table->log_size` |
| `rec[i]` | `table->entries[i]`: a record with its `epoch`, `offset`, `len`, `policy`, `dst` and log contents. |
| `wlock`, `rlock` | Each record's `rwlockp`. |
| `rwW`, `rwR` | `mmio->rwlock`: the writer, and the read holds per holder. |
| `pc`, `op`, `cur`, `held`, `ret`, `res` | Each thread's program counter, request, `LOCK_ENTRIES` cursor, entries list (a sequence, with new records pushed at the front exactly as `slist_push` does), return value and read buffer. |
| `ck` | The checkpoint thread's pass: its `current_epoch`, offset and slot. |
| `halted` | Set when the process exits (`HANDLE_ERROR`) or reaches undefined behaviour. |
| `recEpoch`, `cimage`, `latest` | Ghost variables for the properties. `recEpoch` is the untruncated epoch of a record. `cimage` is the logical content at the last fsync. `latest` is the last write to each byte. |

**Actions.** Each one follows the code's control flow. The logging loop of
`mmio_write`, with its trailing `fsize` test and store, is one `WriteBody`
step. The `fsize` test and store are separate steps (`FsizeTest`,
`FsizeStore`) because the code does them under the shared lock only.

| Action | Code |
|---|---|
| `Begin`, `BeginWrite`, `BeginRead` | `read`/`write` in `file.c`, and the rdlock of `mmio_read`/`mmio_write` |
| `LockEntry` | One iteration of `LOCK_ENTRIES`, including `get_log_size` and `get_log_entry` |
| `WriteBody` | The loop of `mmio_write` (`LogEntries`/`LogOne`), the UNDO store and `increase_counter` |
| `FsizeTest`, `FsizeStore` | `check_fsize` and the `fsize` store |
| `ReadBody` | `mmio_read`'s length cut and copy (`read_redolog`) |
| `Unlock` | `UNLOCK_ENTRIES` and `RWLOCK_UNLOCK` |
| `BeginCommit`, `CommitLock`, `CommitQuiet`, `CommitSamePolicy`, `CommitPolicyChange`, `CommitUnlock` | `fsync` and `commit_mmio`/`determine_policy` |
| `CkWake`, `CkLockTable`, `CkUnsizedTable`, `CkTryLock`, `CkSkip`, `CkReclaim`, `CkUnlockTable`, `CkPassDone` | `checkpoint_thread_func` and `checkpoint_mmio` |

The epoch is stored in records as `Ep(e) = e % 2^EpochBits`. This is the
20-bit field of `idx_entry_t`, scaled down.

### `Allocator.tla`: one object pool

This module models one pool: the global `flist_t` under its mutex, plus a
provider and a collector per thread. The four catalogues (tables, records,
log buffers, `mmio_t`s) are instances of it. `FileTable` instantiates it as
the `mmio_t` pool.

**State.** Free-list nodes are identified with the object they carry, and the
lists are represented by their links:

| Variable | Code |
|---|---|
| `nxt[o]` | `node->list.next` |
| `snx[o]` | `node->skip.next` |
| `hd[h]` | `h->next` for every list head `h` |
| `cnt` | `list_cnt` and `skip_cnt` |
| `inUse` | Objects handed out to callers |
| `halted` | The exit on an empty global skip list |

`slist_push`, `slist_pop` and `slist_cut_splice` are translated link by link.
A misplaced relink therefore shows up as a node that is reachable twice, or
not at all.

**Actions.** Each is one atomic step. The global lists are touched only under
`global->mutex`, and each provider and collector only by its thread.

| Action or definition | Code |
|---|---|
| `Init` | `create_global_list`, that is, `put_global` applied in address order |
| `Acquire` | `POP_PROVIDER`, with `fill_local_provider` when the provider is empty |
| `AcquireExhausted` | The `HANDLE_ERROR` of `fill_local_provider` |
| `Release` | `PUSH_COLLECTOR`, that is, `put_local_collector` with its spill |

Any thread may free any object in use, because the checkpoint thread frees
records that writers allocated.

The spill also adds to the global counts, which `fill_local_provider` never
decrements. Nothing reads those counts after creation, so the model does not
track their upward drift.

### `FileTable.tla`: open, write, close and the life of an `mmio_t`

It models `libnvmmio_open`, `write` (as far as it extends the file) and
`close` (`file.c`), the file hash (`file_hash.c`), and `get_new_mmio` and
`release_mmio` (`allocator.c`). It is a composition: the pool of `mmio_t`s
is `Allocator` itself, taken by `A == INSTANCE Allocator` on the same
threads, so `get_new_mmio` is `A!Acquire` on the opening thread's provider
and `release_mmio` is `put_local_collector` on the closing thread's
collector. Each application thread has one descriptor. Its state is:

* `pc`: the step of its open (`idle`, `lookup`, `new`, `put`, `open`);
* `fino` and `fmmio`: its `file_t`'s inode and `mmio`;
* `st`: the `st_size` its `fstat` read, dead once the open is done.

The shared state is:

* `hash`: the hashed `mmio_t`s;
* `ino`, `ref`, `fsize`, `len`: each `mmio_t`'s inode, reference count,
  `mmio->fsize` and mapping length;
* `dsize`: each inode's size on disk;
* `lsize`: a history variable, the bytes each inode holds after the writes;
* `stale`: the `mmio_t`s on which a cancelled checkpoint thread is still
  inside a pass;
* the `Allocator` variables; `pool` is every object not in use;
* `halted`: the process has exited.

The actions follow the code:

* `fstat` reads the inode and its size, outside any lock.
* `get_mmio_hash` is the lookup, with `ref++` when the inode is found.
* `get_new_mmio` pops an `mmio_t`. An empty file is `posix_fallocate`d to
  `DEFAULT_MMAP_SIZE` (`MmapSize`) and mapped at that length. `fsize` is set
  from `st`. `AllocExhausted` is the exit on an empty pool.
* `put_mmio_hash` is the re-check and insert (`list_add`). An existing entry
  is returned with no `ref++`.
* `write` extends the file by one byte within the mapping, raising
  `mmio->fsize`. Writes that stay inside the file change no tracked state.
* `close` runs `delete_mmio_hash`: it does `ref--` on the inode's hashed
  `mmio_t`, and at zero unhashes it (`list_del`) and calls `release_mmio`.
  `release_mmio` cancels the checkpoint thread without joining it and
  `ftruncate`s the file to `fsize`. It then runs `init_mmio`, which resets
  `ino`, `fsize` and the mapping but not `ref`, and pushes the object on the
  collector.
* `CkCancelled` is the end of a cancelled thread's pass: the thread reaches
  `usleep`, its only cancellation point, and exits.

The checkpoint thread of an `mmio_t` sleeps and runs passes on a timer,
whatever the files do. The model therefore does not step it. Whether it is
inside a pass when `release_mmio` cancels it is a free choice made in
`release_mmio`.

Each hash operation runs under its bucket mutex, so each is one step. An
open is four steps, and other threads run between them. The buckets are
folded into one set because every lookup is by inode inside one bucket.

### `Bravo.tla` and `RWLock.tla`: the BRAVO lock and what it promises

`RWLock` is the abstract reader-writer lock. For each lock it has a set of
`readers` and one `writer`. Its four actions are acquire and release in
each mode.

`Bravo` has one step for each access of `bravo.c` to shared state:

* `bravo_read_lock` tests `rbias`.
* `ReadCas` is the CAS on `visible_readers[slot]`.
* `ReadRecheck` re-tests `rbias`, and on failure clears the slot.
* `ReadSlow` is `pthread_rwlock_rdlock`, followed by re-enabling the bias
  once the inhibition time has passed. The clock is a free choice.
* `ReadTryFail` is a failed `tryrdlock`.
* `bravo_read_unlock` clears a non-NULL slot, or else unlocks the
  underlying lock.
* `bravo_write_lock` is `wrlock`, then `rbias = false` if the lock is
  biased.
* `Revocate` is the scan of the slots. It waits while a slot names the lock.
* `bravo_write_unlock` releases the write lock.

`bravo_hash` is a constant `Hash` from (thread, lock) to slots. Memory is
sequentially consistent.

The refinement mapping takes the abstract `readers` of a lock to be the
threads whose read call returned, and its `writer` to be the thread whose
write call returned. `ImplementsRWLock == RW!Spec`, where
`RW == INSTANCE RWLock WITH ...`, is checked as a PROPERTY.

### `RadixLog.tla`: the radix tree and its cache

`RadixLog` extends `LogGeometry`. It models one `radix_root_t` that several
threads use at once. Every `mmio_read` and `mmio_write` runs `LOCK_ENTRIES`
under the region *read* lock, so these calls are concurrent. One call of the
model is one iteration of `LOCK_ENTRIES`: `get_log_table` for an offset, then
`get_log_size` of the returned table.

The tree keeps the code's four levels (`LGD`, `LUD`, `LMD`, `TABLE`), with
`IndexBits` bits of index per level in place of 9. Tables are the objects
`1 .. MaxTables` of the table pool, with their `entries`, `type` and
`log_size`. `alloc_log_table` pops the lowest free object and
`free_log_table` pushes it back.

The actions follow the code's shared loads and stores one by one:

* `init_radixlog`: the chain from `LGD` down to `get_deepest_table_type(filesize - 1)`.
  `skip` is the last table of the chain, and `prev_table_index` starts at `ULONG_MAX`.
* `get_log_table`: the load of `prev_table_index` and `check_prev_table`.
  On a hit, `ReusePrevTable` is the separate load of `prev_table`.
  On a miss, the walk starts at `skip`.
* `WalkEntry`: the load of `parent->entries[index]`. On `NULL` it allocates
  a table of the next type.
* `ALLOC_TABLE`: the CAS. On failure, the new table is freed and the
  winner's table is loaded.
* `SetPrevTable` and `SetPrevTableIndex`: the two plain stores of lines 262
  and 263.
* `get_log_size` and `SizeCas`: the test of `log_size`, then the CAS of
  `set_log_size(offset, len)`. A failed CAS goes back to the test.

`find_log_table` is an operator: the walk the checkpoint makes. Every entry it
loads changes at most once, from `NULL` to a table, so one evaluation in a
state gives the same result as the code's walk.

## Runs

Each configuration instantiates `MCMmio` with the scaled geometry
`PageShift = 1` and `LmdShift = 2`. This gives 2-byte pages, granules of 2 or
4 bytes, and 2 slots when granules are 2 bytes. The file has 4 bytes
(`FileSize`). The remaining bounds are:

* `MaxLen`: the longest request;
* `MaxOps`: the number of reads, writes and fsyncs in total;
* `MaxPasses`: the number of checkpoint passes;
* `EpochBits`: the width of the record epoch;
* `InitFsize`: the initial file sizes.

### Passing runs

| Run | What it checks |
|---|---|
| `MCMmio` (safety) | Two threads and the checkpoint, with 4 operations of up to 2 bytes, one checkpoint pass and an empty file, under thread symmetry. About 1.2M states. Checks four properties, listed below. |
| `MCMmio_live` | Two threads, 2 operations on a full file, without symmetry. `IoCompletes`: every read or write that has taken the region lock returns. |
| `MCFileTable` | Two threads, one inode, a pool of 4 `mmio_t`s in batches of 2 (`NR_MMIO_FILL`) with `MAX_SKIP_NODES = 1`, `DEFAULT_MMAP_SIZE` of 1 byte, thread symmetry, about 1.4M states. Checks `HashUniquePerIno`, `RefNeverExceedsUsers` (a hashed `mmio_t`'s `ref` never exceeds the open files that point to it), `PooledRefZero` (an `mmio_t` goes back to the pool with `ref` 0, although `init_mmio` does not reset it) and the three pool properties listed below. |
| `MCBravo` | Three threads, two locks, six slots with a collision-free `Hash`, about 620k states. `ImplementsRWLock` shows the fast-path CAS and recheck against revocation keep readers and writers apart under sequential consistency. |
| `MCRadixLog` | Two threads, two calls each, at offsets 0, 2 and 4 of an 8-byte file with 2-byte leaves and one index bit per level (skip is an `LUD`, so calls allocate `LMD`s and `TABLE`s), lengths 1 and 2, thread symmetry, about 1.6M states. `HeldTablesLinked`: every table a walk stands on or returns is linked in the tree and not in the pool, whatever the CAS races of `ALLOC_TABLE`. `LogSizeAgreed`: the log size a call goes on with is the one its table keeps. |
| `MCLogGeometry` | With `LmdShift = 3`: `SetLogSizeMinimal`, `CheckLogMatchesTable` (the spec's six-case table) and `MergeIsHull` (a merged span is the hull of the old span, the new bytes and the backfilled gap). |

The four properties of `MCMmio`:

* `HeldEntriesLocked`: a record on a thread's entries list stays installed and locked by that thread.
* `NoUnlockedModification`: no byte or record changes without its record's write lock.
* `CheckpointSparesCurrentEpoch`: the checkpoint frees only records of a closed epoch.
* `FsizeNeverShrinks`: `fsize` never decreases. This holds because a writer starts at a position of at most `fsize` and so holds the lock of the granule that contains byte `fsize`.

The three pool properties, which `MCFileTable` checks on the `mmio_t` pool:

* `OwnedOnce`: every object has exactly one owner. It is reachable once, from one list, or it is held by a caller.
* `SkipMarksBatches`: the skip marks of the global list and of every collector sit on exactly the first node of each batch, and the collector counts equal the list lengths.
* `CollectorRetention`: a collector never keeps more than `MAX_SKIP_NODES` batches.

With 4 objects and `MAX_SKIP_NODES = 1`, a thread that closes three files in
a row fills its collector past one batch and spills. An `mmio_t` popped by
one thread is freed by the other when that one closes the last descriptor.
`MCAllocator.cfg` checks the same properties on the pool alone, with any
thread acquiring and releasing any object (6 objects, `MAX_SKIP_NODES = 2`,
about 28k states).

### Violation runs (findings)

Each violation run checks one property that states what the spec says the
program does. TLC finds it violated.

| Run | Property | What the code does |
|---|---|---|
| `MCMmio_CommitCompletes` | `CommitCompletes` | `checkpoint_mmio` read-locks the region twice per table and unlocks once (`mmio.c:188-189`), so the next fsync blocks forever. |
| `MCMmio_UndoLog` | `UndoLogHoldsCommittedBytes` | A second UNDO write in the same epoch re-logs bytes and loses their pre-image (`mmio.c:318`). |
| `MCFileTable_UseAfterRelease` | `OpenFilesUseLiveMmio` | Two opens of one inode both miss in `get_mmio_hash`. The loser's `put_mmio_hash` returns the winner's `mmio_t` without `ref++` (`file_hash.c:79`). `ref` is then 1 for two files, and the first close releases the `mmio_t` while the other descriptor still uses it. The loser's own `mmio_t` is never released. |
| `MCFileTable_CheckpointAfterRelease` | `CheckpointStopsAtRelease` | `release_mmio` calls `pthread_cancel` and does not join (`allocator.c:441`). It then unmaps the file, destroys and re-initialises the rwlock, resets the radix root and pushes the `mmio_t` to the pool. The thread acts on the cancel only in `usleep`, so a `checkpoint_mmio` pass under way goes on over the released object. The spec says the cancel interrupts the checkpoint. |
| `MCFileTable_StaleSize` | `MmioSizeCurrent` | `libnvmmio_open` reads `st_size` by `fstat` before the hash lookup (`file.c:46`). t1 opens an empty file, and its `get_new_mmio` `posix_fallocate`s it to `DEFAULT_MMAP_SIZE`. t2's `fstat` reads that size, t2 also misses, and t2 wins `put_mmio_hash`. The hashed `mmio_t` then reports 1 MB for an empty file. Reads return bytes the file never held, and the last close `ftruncate`s the file to 1 MB. With a close in the window instead, the size is too small, and the last close cuts bytes that another descriptor wrote. |
| `MCRadixLog_PrevTable` | `GetLogTableIsOffsetTable` | t1's call at offset 0 matches `prev_table_index` (line 182). Before t1 loads `prev_table` (line 185), t2, walking for offset 2, stores its own leaf in `prev_table` (line 262). t1 gets the leaf of offsets 2-3, so `LOCK_ENTRIES` logs offset 0 into another region's table, where neither `find_log_table` nor a walk for offset 0 looks. The same pairing is left behind when two refreshes interleave their two stores. |

Seven more configurations make TLC report a violation. Each is listed as a
hazard in `PROJECT.json`, not as a run:

* `MCMmio_RedoRead.cfg` (`ReadSeesLatestWrites`). `LOCK_ENTRIES` pushes
  records LIFO (`mmio.c:40`), so a REDO write and read over two granules
  pair each granule with the other's record.
* `MCMmio_UnsizedTable.cfg` (`CheckpointNeverScansUnsizedTable`). A table
  that no access has sized yet has `log_size == NR_LOG_SIZES`, so the
  checkpoint shifts by a negative amount (`mmio.c:193`).
* `MCMmio_WriteReturns.cfg` (`WriteReturnsRequested`). `n` is set once
  before the loop (`mmio.c:297`), so a multi-granule write logs and returns
  the wrong count.
* `MCMmio_EpochWrap.cfg` (`CheckpointSparesCurrentEpoch` with
  `EpochBits = 1`). The 20-bit record epoch wraps (`radixlog.h:33`), and the
  checkpoint frees a current record.
* `MCMmio_FsyncNeverAborts.cfg` (`FsyncNeverAborts`). `determine_policy`
  calls `checkpoint_mmio` under fsync's own write lock (`mmio.c:618`). Its
  read lock fails with EDEADLK and the process exits.
* `MCBravo_Collision.cfg` (`ImplementsRWLock`, three slots). With t1 on l1
  and t2 on l2 sharing a slot, t2 takes the slow path and its
  `bravo_read_unlock` clears t1's slot (`bravo.c:131` tests `!= NULL`, not
  `== l`). A writer of l1 then returns beside t1. No code of the library
  takes a BRAVO lock.
* `MCLogGeometry_RedoSpliceIsExact.cfg` (`RedoSpliceIsExact`). Case 3 of
  `read_redolog` copies the tail from an address advanced twice
  (`mmio.c:486`).

### Why the bounds are enough

Two threads and 2-slot tables are enough for:

* concurrent multi-granule requests;
* lock order between overlapping ranges;
* a checkpoint try-lock racing `LOCK_ENTRIES`;
* two `fsize` writers.

4 operations allow a write, an fsync and a write or read in the new epoch
while another thread is active. A single checkpoint pass already shows the
lock leak. More passes only repeat the scan.

`MCFileTable` uses two threads, one inode and four `mmio_t`s. Every race it
looks for is between two opens, or an open and a close, of one inode. The
pool is the smallest one in which the allocator's mutants show: two
batches, so a provider refills from the global list, and
`MAX_SKIP_NODES = 1`, so a collector spills after three releases. Leaked
`mmio_t`s of lost open races drain it (`AllocExhausted`). A 1-byte
`DEFAULT_MMAP_SIZE` keeps the sizes to 0 and 1, which is enough for an empty
file, a fallocated one and one a write extended.

`MCBravo` uses three threads on two locks. That is enough for a writer to
revoke while one reader is on the fast path and another is on the slow path,
and for the bias to be re-enabled by a slow reader. Two threads sharing one
slot are enough to break exclusion.

`MCRadixLog` uses two threads, because every race in `radixlog.c` is
between two calls. Offsets 0 and 2 share an `LMD`, and offset 4 is under the
other one, so two calls can race to allocate the same `LMD` or the same
`TABLE`, or can refresh the cache for different leaves. Lengths 1 and 2 give
two different `set_log_size` results for one table. Two calls per thread
let a second call hit the cache that the other thread is refreshing.

## Fairness

Each application thread, and the checkpoint thread, is weakly fair. Every
step of a thread is either local or blocks only on a lock that its holder
releases. Pthread rwlocks and mutexes in the code make no stronger promise.

The passing runs set `CHECK_DEADLOCK FALSE`, and deadlock is not checked
there, for two reasons:

* the operation and checkpoint budgets run out;
* the fsync hang (finding 1) is a real stop.

Progress of reads and writes is stated as `IoCompletes` instead.

`MCFileTable`, `MCRadixLog` and `MCBravo` check safety only, with no fairness:

* `MCFileTable` sets `CHECK_DEADLOCK FALSE` because the process exits on an
  empty pool. A cancelled checkpoint pass ends at any later step
  (`CkCancelled`), with no fairness needed, because no property waits for it.
* `MCRadixLog` sets `CHECK_DEADLOCK FALSE` because each thread stops after
  `MaxCalls` calls.
* `MCBravo` checks deadlock. A thread can always return to idle, so it has
  none.

## Not modelled

* **`expend_mmio`** (growth by `mremap`). `Mmio` keeps the file inside one
  leaf table of the initial mapping. The multi-level walk and the
  `prev_table` cache are modelled in `RadixLog`, apart from the engine.
* **The pairing of pools in `alloc_idx_entry`.** It takes a record, then a
  log buffer, from two pools. Each pool is modelled alone.
* **The spec's rule for sizing a table (spec 4.2).** The spec says the
  smallest granule whose aligned span covers the request. `set_log_size`
  sizes by the length from the page start, so a request at offset 2 of
  length 3 (2-byte pages) gets a granule that does not cover it.
  `SetLogSizeMinimal` checks the code's own rule. The difference is recorded
  as a hazard, not as a run.
* **Weak memory for BRAVO.** `revocate` stores `rbias = false` and then
  loads the slots with no fence. Under x86-TSO the store can wait in the
  store buffer while a fast reader's recheck still reads `true`. The model
  is sequentially consistent, so this is a hazard without a property.
* **`lseek`, and the position of a descriptor.** `lseek` accepts a negative
  target (`SEEK_CUR` or `SEEK_END` with a negative offset). The spec calls an
  invalid seek target fatal. This is one call that a unit test reaches, so it
  is a hazard in `PROJECT.json`. Positions would multiply `FileTable`'s
  states.
* **`truncate`, `stat`, `pread`/`pwrite` and the fallthrough to libc; the
  `mmap` and `munmap` calls; the CAS of `load_libnvmmio`.** They do not change
  the library's state. The sizes they leave behind (`posix_fallocate`,
  `ftruncate`) are `FileTable`'s `dsize`.
* **A thread holding two BRAVO locks at once, and `bravo_rwlock_destroy`.**
