------------------------------ MODULE RadixLog ------------------------------
(***************************************************************************)
(* The radix tree of log tables of one mmio (radixlog.c) and the threads  *)
(* that walk it concurrently: every mmio_read and mmio_write runs          *)
(* LOCK_ENTRIES under the region read lock, so any number of them call    *)
(* get_log_table and get_log_size on the same radix_root_t at once.  One  *)
(* call here is one iteration of LOCK_ENTRIES' loop: get_log_table for    *)
(* the offset, then get_log_size of the table it returned.                 *)
(*                                                                         *)
(* The tree has the code's four levels (LGD, LUD, LMD, TABLE) with         *)
(* IndexBits bits of index per level instead of 9; the byte geometry is   *)
(* LogGeometry's (LmdShift stands for LMD_SHIFT).  Tables are the objects *)
(* 1 .. MaxTables of the table pool; each shared load or store the code   *)
(* makes is its own step: the load of prev_table_index, the load of        *)
(* prev_table, each load of an entry, each CAS, and the two plain stores  *)
(* that refresh the cache.                                                 *)
(***************************************************************************)
EXTENDS LogGeometry, FiniteSets

CONSTANTS
    Threads,
    IndexBits,  \* bits of index per level (9 in radixlog.h)
    FileSize,   \* the mmio's size given to init_radixlog
    Offsets,    \* offsets the calls ask for
    Lens,       \* remaining lengths n_ the calls pass to get_log_size
    MaxTables,  \* log_table_t objects in the pool
    MaxCalls    \* calls per thread

\* table_type_t and NEXT_TABLE_TYPE
TABLE == 1
LMD   == 2
LUD   == 3
LGD   == 4
NEXT_TABLE_TYPE(ty) == ty - 1

NULL     == 0
TableIds == 1 .. MaxTables
Idx      == 0 .. 2 ^ IndexBits - 1

\* LMD_INDEX, LUD_INDEX, LGD_INDEX: the index a table of type ty gives o.
IndexAt(ty, o) == (o \div 2 ^ (LmdShift + (ty - LMD) * IndexBits)) % 2 ^ IndexBits
LUD_SHIFT == LmdShift + IndexBits
LGD_SHIFT == LmdShift + 2 * IndexBits

\* TABLE_MASK & (offset >> LMD_SHIFT): the leaf a offset falls in.
TableKey(o) == (o \div 2 ^ LmdShift) % 2 ^ (3 * IndexBits)
\* ULONG_MAX, the prev_table_index init_radixlog leaves: no key equals it.
UlongMax == 2 ^ (3 * IndexBits)

check_prev_table(prev_table_index, o) == prev_table_index = TableKey(o)

get_deepest_table_type(maxoff) ==
    IF maxoff \div 2 ^ LmdShift = 0 THEN TABLE
    ELSE IF maxoff \div 2 ^ LUD_SHIFT = 0 THEN LMD
    ELSE IF maxoff \div 2 ^ LGD_SHIFT = 0 THEN LUD
    ELSE LGD

ASSUME /\ IndexBits \in Nat \ {0}
       /\ FileSize \in Nat \ {0}
       /\ Offsets \subseteq 0 .. FileSize - 1
       /\ Lens \subseteq Nat \ {0}

VARIABLES
    entries,    \* table->entries[] (child tables; NULL = 0)
    ttype,      \* table->type
    lsize,      \* table->log_size (NrLogSizes = NR_LOG_SIZES: unset)
    pool,       \* tables in global_table_list / the thread's lists
    skip,       \* root->skip
    prevTable,  \* root->prev_table
    prevIndex,  \* root->prev_table_index
    pc, off, len, cur, new, tbl, lsz, calls

vars == <<entries, ttype, lsize, pool, skip, prevTable, prevIndex,
          pc, off, len, cur, new, tbl, lsz, calls>>

(***************************************************************************)
(* init_radixlog: one table per level from LGD down to the deepest type   *)
(* the file needs, each linked at maxoff's index of its parent; skip is   *)
(* the last.  Tables come from the pool in order 1, 2, ...; every pool    *)
(* object starts zeroed by init_table.  prev_table is left as allocated   *)
(* (zero); prev_table_index is ULONG_MAX.                                 *)
(***************************************************************************)
Deepest == get_deepest_table_type(FileSize - 1)
Chain   == 1 .. LGD - Deepest + 1                \* ids of the chain
ChainType(k) == LGD - (k - 1)

ASSUME Cardinality(Chain) <= MaxTables

init_radixlog ==
    /\ entries = [k \in TableIds |-> [i \in Idx |->
                    IF k + 1 \in Chain /\ i = IndexAt(ChainType(k), FileSize - 1)
                      THEN k + 1 ELSE NULL]]
    /\ ttype = [k \in TableIds |-> IF k \in Chain THEN ChainType(k) ELSE 0]
    /\ lsize = [k \in TableIds |-> IF k \in Chain THEN NrLogSizes ELSE 0]
    /\ pool = TableIds \ Chain
    /\ skip = Cardinality(Chain)
    /\ prevTable = NULL
    /\ prevIndex = UlongMax

Init ==
    /\ init_radixlog
    /\ pc = [t \in Threads |-> "idle"]
    /\ off = [t \in Threads |-> 0]
    /\ len = [t \in Threads |-> 1]
    /\ cur = [t \in Threads |-> NULL]
    /\ new = [t \in Threads |-> NULL]
    /\ tbl = [t \in Threads |-> NULL]
    /\ lsz = [t \in Threads |-> 0]
    /\ calls = [t \in Threads |-> 0]

Goto(t, p) == pc' = [pc EXCEPT ![t] = p]

\* The walk reached table c: a TABLE is the result (line 262 is next),
\* any other table is walked on.
Descend(t, c) ==
    IF ttype[c] = TABLE
      THEN /\ tbl' = [tbl EXCEPT ![t] = c]
           /\ Goto(t, "store_table")
           /\ UNCHANGED cur
      ELSE /\ cur' = [cur EXCEPT ![t] = c]
           /\ Goto(t, "walk")
           /\ UNCHANGED tbl

(***************************************************************************)
(* get_log_table, lines 182-188: the load of prev_table_index decides     *)
(* between the cached table and a walk from root->skip.                   *)
(***************************************************************************)
get_log_table(t, o, n) ==
    /\ pc[t] = "idle"
    /\ calls[t] < MaxCalls
    /\ calls' = [calls EXCEPT ![t] = @ + 1]
    /\ off' = [off EXCEPT ![t] = o]
    /\ len' = [len EXCEPT ![t] = n]
    /\ IF check_prev_table(prevIndex, o)
         THEN /\ Goto(t, "reuse")
              /\ UNCHANGED <<cur, tbl>>
         ELSE Descend(t, skip)
    /\ UNCHANGED <<entries, ttype, lsize, pool, skip, prevTable, prevIndex, new, lsz>>

\* "return root->prev_table": a second load, after the one of the index.
ReusePrevTable(t) ==
    /\ pc[t] = "reuse"
    /\ tbl' = [tbl EXCEPT ![t] = prevTable]
    /\ Goto(t, "size")
    /\ UNCHANGED <<entries, ttype, lsize, pool, skip, prevTable, prevIndex,
                   off, len, cur, new, lsz, calls>>

\* alloc_log_table and free_log_table on the table pool (POP_PROVIDER,
\* PUSH_COLLECTOR); the object popped is the lowest free one.
alloc_log_table(k, ty) ==
    /\ pool' = pool \ {k}
    /\ ttype' = [ttype EXCEPT ![k] = ty]
    /\ lsize' = [lsize EXCEPT ![k] = NrLogSizes]

free_log_table(k) == pool' = pool \cup {k}

(***************************************************************************)
(* One level of the walk (lines 198-200, 211-213, 232-234 ...): load      *)
(* parent->entries[index]; a NULL entry starts ALLOC_TABLE with a table   *)
(* of the next type.                                                      *)
(***************************************************************************)
WalkEntry(t) ==
    /\ pc[t] = "walk"
    /\ LET c == entries[cur[t]][IndexAt(ttype[cur[t]], off[t])]
       IN IF c # NULL
            THEN /\ Descend(t, c)
                 /\ UNCHANGED <<new, ttype, lsize, pool>>
            ELSE /\ pool # {}
                 /\ LET k == CHOOSE k \in pool : \A j \in pool : k <= j
                    IN /\ alloc_log_table(k, NEXT_TABLE_TYPE(ttype[cur[t]]))
                       /\ new' = [new EXCEPT ![t] = k]
                 /\ Goto(t, "cas")
                 /\ UNCHANGED <<cur, tbl>>
    /\ UNCHANGED <<entries, skip, prevTable, prevIndex, off, len, lsz, calls>>

(***************************************************************************)
(* ALLOC_TABLE's CAS of parent->entries[index] from NULL to the new table;*)
(* on failure the new table is freed and the entry another thread linked  *)
(* is loaded instead.                                                     *)
(***************************************************************************)
\* Mutant: a plain store in place of the CAS.
ALLOC_TABLE_store(t) ==
    /\ pc[t] = "cas"
    /\ entries' = [entries EXCEPT ![cur[t]][IndexAt(ttype[cur[t]], off[t])] = new[t]]
    /\ Descend(t, new[t])
    /\ new' = [new EXCEPT ![t] = NULL]
    /\ UNCHANGED <<ttype, lsize, pool, skip, prevTable, prevIndex, off, len, lsz, calls>>

ALLOC_TABLE(t) ==
    /\ pc[t] = "cas"
    /\ LET i == IndexAt(ttype[cur[t]], off[t])
       IN IF entries[cur[t]][i] = NULL
            THEN /\ entries' = [entries EXCEPT ![cur[t]][i] = new[t]]
                 /\ Descend(t, new[t])
                 /\ UNCHANGED pool
            ELSE /\ free_log_table(new[t])
                 /\ Descend(t, entries[cur[t]][i])
                 /\ UNCHANGED entries
    /\ new' = [new EXCEPT ![t] = NULL]
    /\ UNCHANGED <<ttype, lsize, skip, prevTable, prevIndex, off, len, lsz, calls>>

\* Lines 262 and 263: two plain stores refresh the cache, table first.
SetPrevTable(t) ==
    /\ pc[t] = "store_table"
    /\ prevTable' = tbl[t]
    /\ Goto(t, "store_index")
    /\ UNCHANGED <<entries, ttype, lsize, pool, skip, prevIndex, off, len,
                   cur, new, tbl, lsz, calls>>

SetPrevTableIndex(t) ==
    /\ pc[t] = "store_index"
    /\ prevIndex' = TableKey(off[t])
    /\ Goto(t, "size")
    /\ UNCHANGED <<entries, ttype, lsize, pool, skip, prevTable, off, len,
                   cur, new, tbl, lsz, calls>>

(***************************************************************************)
(* get_log_size: a table whose log_size is set returns it; an unset one   *)
(* gets set_log_size(offset, len) by a CAS from NR_LOG_SIZES, and a        *)
(* failed CAS goes back to retry_get_log_size.                            *)
(***************************************************************************)
\* Mutant: the stored log_size is returned without the test for unset.
get_log_size_unchecked(t) ==
    /\ pc[t] = "size"
    /\ lsz' = [lsz EXCEPT ![t] = lsize[tbl[t]]]
    /\ Goto(t, "use")
    /\ UNCHANGED <<entries, ttype, lsize, pool, skip, prevTable, prevIndex,
                   off, len, cur, new, tbl, calls>>

get_log_size(t) ==
    /\ pc[t] = "size"
    /\ IF lsize[tbl[t]] # NrLogSizes
         THEN /\ lsz' = [lsz EXCEPT ![t] = lsize[tbl[t]]]
              /\ Goto(t, "use")
         ELSE /\ Goto(t, "size_cas")
              /\ UNCHANGED lsz
    /\ UNCHANGED <<entries, ttype, lsize, pool, skip, prevTable, prevIndex,
                   off, len, cur, new, tbl, calls>>

\* Mutant: a plain store of the computed size.
SizeCas_store(t) ==
    /\ pc[t] = "size_cas"
    /\ lsize' = [lsize EXCEPT ![tbl[t]] = set_log_size(off[t], len[t])]
    /\ lsz' = [lsz EXCEPT ![t] = set_log_size(off[t], len[t])]
    /\ Goto(t, "use")
    /\ UNCHANGED <<entries, ttype, pool, skip, prevTable, prevIndex,
                   off, len, cur, new, tbl, calls>>

SizeCas(t) ==
    /\ pc[t] = "size_cas"
    /\ IF lsize[tbl[t]] = NrLogSizes
         THEN /\ lsize' = [lsize EXCEPT ![tbl[t]] = set_log_size(off[t], len[t])]
              /\ lsz' = [lsz EXCEPT ![t] = set_log_size(off[t], len[t])]
              /\ Goto(t, "use")
         ELSE /\ Goto(t, "size")
              /\ UNCHANGED <<lsize, lsz>>
    /\ UNCHANGED <<entries, ttype, pool, skip, prevTable, prevIndex,
                   off, len, cur, new, tbl, calls>>

\* The rest of the LOCK_ENTRIES iteration uses (table, log_size); the
\* call's locals are dead when the thread starts its next call.
Finish(t) ==
    /\ pc[t] = "use"
    /\ Goto(t, "idle")
    /\ off' = [off EXCEPT ![t] = 0]
    /\ len' = [len EXCEPT ![t] = 1]
    /\ cur' = [cur EXCEPT ![t] = NULL]
    /\ tbl' = [tbl EXCEPT ![t] = NULL]
    /\ lsz' = [lsz EXCEPT ![t] = 0]
    /\ UNCHANGED <<entries, ttype, lsize, pool, skip, prevTable, prevIndex,
                   new, calls>>

Next ==
    \E t \in Threads :
        \/ \E o \in Offsets, n \in Lens : get_log_table(t, o, n)
        \/ ReusePrevTable(t)
        \/ WalkEntry(t)
        \/ ALLOC_TABLE(t)
        \/ SetPrevTable(t)
        \/ SetPrevTableIndex(t)
        \/ get_log_size(t)
        \/ SizeCas(t)
        \/ Finish(t)

Spec == Init /\ [][Next]_vars

-----------------------------------------------------------------------------
(***************************************************************************)
(* find_log_table: the walk from root->skip the checkpoint thread makes,  *)
(* without allocating; NULL where a level is missing.  Every entry it     *)
(* loads changes at most once, from NULL to a table, so its result is the *)
(* one of this state or NULL.                                             *)
(***************************************************************************)
RECURSIVE FindFrom(_, _)
FindFrom(k, o) ==
    IF k = NULL \/ ttype[k] = TABLE THEN k
    ELSE FindFrom(entries[k][IndexAt(ttype[k], o)], o)

find_log_table(o) == FindFrom(skip, o)

\* The tables reachable from root->skip.
RECURSIVE Below(_)
Below(k) == {k} \cup UNION {Below(entries[k][i]) : i \in {j \in Idx : entries[k][j] # NULL}}
Linked == Below(skip)

\* States in which the thread's get_log_table call has its table.
HasTable(t) == pc[t] \in {"store_table", "store_index", "size", "size_cas", "use"}

TypeOK ==
    /\ entries \in [TableIds -> [Idx -> TableIds \cup {NULL}]]
    /\ ttype \in [TableIds -> 0 .. LGD]
    /\ lsize \in [TableIds -> 0 .. NrLogSizes]
    /\ pool \subseteq TableIds
    /\ skip \in TableIds
    /\ prevTable \in TableIds \cup {NULL}
    /\ prevIndex \in 0 .. UlongMax
    /\ pc \in [Threads -> {"idle", "reuse", "walk", "cas", "store_table",
                           "store_index", "size", "size_cas", "use"}]
    /\ off \in [Threads -> Offsets \cup {0}]
    /\ len \in [Threads -> Lens \cup {1}]
    /\ cur \in [Threads -> TableIds \cup {NULL}]
    /\ new \in [Threads -> TableIds \cup {NULL}]
    /\ tbl \in [Threads -> TableIds \cup {NULL}]
    /\ lsz \in [Threads -> LogSizes]
    /\ calls \in [Threads -> 0 .. MaxCalls]

(***************************************************************************)
(* Two threads that find the same entry NULL both allocate and both CAS:  *)
(* whatever the interleaving, every table a walk stands on or returns is  *)
(* linked in the tree and not back in the pool, so no record is installed *)
(* in a table that was freed or that no later walk reaches.               *)
(***************************************************************************)
HeldTablesLinked ==
    \A t \in Threads :
        /\ pc[t] \in {"walk", "cas"} => cur[t] \in Linked \ pool
        /\ HasTable(t) => tbl[t] \in Linked \ pool

(***************************************************************************)
(* Two threads sizing one fresh table with different lengths: the log     *)
(* size each goes on with is the one the table keeps, so every record of  *)
(* a table is indexed with the same granule size.                         *)
(***************************************************************************)
LogSizeAgreed ==
    \A t \in Threads :
        pc[t] = "use" => lsz[t] = lsize[tbl[t]]

(***************************************************************************)
(* The table get_log_table returns for an offset, from the walk or from   *)
(* the prev_table cache, is the table of that offset: the one              *)
(* find_log_table gives the checkpoint for it.                            *)
(***************************************************************************)
GetLogTableIsOffsetTable ==
    \A t \in Threads :
        HasTable(t) => tbl[t] = find_log_table(off[t])
=============================================================================
