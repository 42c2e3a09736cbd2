------------------------------ MODULE Allocator ------------------------------
(***************************************************************************)
(* One object pool of the allocator (allocator.c, allocator.h, slist.h):  *)
(* the global flist_t under its mutex, and per thread a provider and a    *)
(* collector flist_t.  Free-list nodes are modelled by the object they    *)
(* carry (PUSH_* allocates one fnode per object, POP_PROVIDER frees it),  *)
(* and the singly linked lists by their links: nxt[o] is node->list.next, *)
(* snx[o] is node->skip.next, hd[h] is the next field of list head h.     *)
(* slist_push, slist_pop and slist_cut_splice are translated link by      *)
(* link, so a wrong call shows up as a node reachable twice or not at all.*)
(* Every step that touches the global list holds global->mutex for its    *)
(* whole critical section and every other step touches only the calling  *)
(* thread's own lists, so each operation is one atomic step.              *)
(***************************************************************************)
EXTENDS Naturals, Sequences, FiniteSets, FiniteSetsExt, SequencesExt

CONSTANTS Threads,        \* threads that allocate and free objects
          NrObjs,         \* objects created by create_global_list
          SkipUnit,       \* global->skip_unit (NR_NODE_FILL, NR_MMIO_FILL)
          MaxSkipNodes,   \* MAX_SKIP_NODES
          Pool            \* model value naming the global flist_t

ASSUME NrObjs \in Nat /\ SkipUnit \in Nat \ {0} /\ MaxSkipNodes \in Nat \ {0}
ASSUME NrObjs % SkipUnit = 0   \* every create_global_*_list rounds its count

Objs == 1 .. NrObjs
Nil  == 0

\* The list heads: the global list and skip list, and per thread the
\* provider's list and the collector's list and skip list.
Heads == [k : {"list", "skip"}, t : {Pool}] \cup [k : {"prov", "coll", "cskip"}, t : Threads]
GL       == [k |-> "list", t |-> Pool]
GS       == [k |-> "skip", t |-> Pool]
PL(t)    == [k |-> "prov", t |-> t]
CL(t)    == [k |-> "coll", t |-> t]
CS(t)    == [k |-> "cskip", t |-> t]

VARIABLES hd,      \* hd[h]: h->next
          nxt,     \* nxt[o]: the list link of o's fnode
          snx,     \* snx[o]: the skip link of o's fnode
          cnt,     \* cnt[h]: list_cnt (list heads) and skip_cnt (skip heads)
          inUse,   \* objects handed out by POP_PROVIDER and not yet freed
          halted   \* HANDLE_ERROR("global->skip_list is empty") exited

vars == <<hd, nxt, snx, cnt, inUse, halted>>

\* The link memory as one value, so that the list primitives compose.
Mem == [hd |-> hd, nxt |-> nxt, snx |-> snx, cnt |-> cnt]
SetMem(m) == hd' = m.hd /\ nxt' = m.nxt /\ snx' = m.snx /\ cnt' = m.cnt

(***************************************************************************)
(* slist.h.  A list push threads the node's list link, a skip push its    *)
(* skip link.                                                             *)
(***************************************************************************)
ListPush(m, o, h) == [m EXCEPT !.nxt[o] = m.hd[h], !.hd[h] = o]
SkipPush(m, o, h) == [m EXCEPT !.snx[o] = m.hd[h], !.hd[h] = o]
ListPop(m, h)     == [m EXCEPT !.hd[h] = m.nxt[m.hd[h]], !.nxt[m.hd[h]] = Nil]
SkipPop(m, h)     == [m EXCEPT !.hd[h] = m.snx[m.hd[h]], !.snx[m.hd[h]] = Nil]
\* Mutation: new_head->next is stored before node->next reads it.
slist_cut_splice_swapped(m, h, o, h2) ==
    [m EXCEPT !.hd[h] = m.nxt[o], !.hd[h2] = m.hd[h], !.nxt[o] = m.hd[h]]
\* slist_cut_splice(head, &node->list, new_head): move head's nodes up to and
\* including node onto the front of new_head.
slist_cut_splice(m, h, o, h2) ==
    [m EXCEPT !.hd[h] = m.nxt[o], !.nxt[o] = m.hd[h2], !.hd[h2] = m.hd[h]]
Bump(m, h, d) == [m EXCEPT !.cnt[h] = @ + d]

(***************************************************************************)
(* put_global: a node pushed when list_cnt is a multiple of skip_unit is  *)
(* also pushed on the skip list.  create_global_list pushes the objects  *)
(* in address order under the mutex before any thread runs.              *)
(***************************************************************************)
put_global(m, o) ==
    LET m1 == IF m.cnt[GL] % SkipUnit = 0 THEN Bump(SkipPush(m, o, GS), GS, 1) ELSE m
    IN Bump(ListPush(m1, o, GL), GL, 1)

create_global_list ==
    FoldLeft(put_global, [hd |-> [h \in Heads |-> Nil], nxt |-> [o \in Objs |-> Nil],
                          snx |-> [o \in Objs |-> Nil], cnt |-> [h \in Heads |-> 0]],
             [i \in 1 .. NrObjs |-> i])

Init ==
    /\ hd = create_global_list.hd /\ nxt = create_global_list.nxt
    /\ snx = create_global_list.snx /\ cnt = create_global_list.cnt
    /\ inUse = {}
    /\ halted = FALSE

(***************************************************************************)
(* fill_local_provider: detach the top batch, from the list head down to  *)
(* the node the skip head points at, onto the provider, and pop the skip  *)
(* entry.  The counts of the global list are left as they were.          *)
(***************************************************************************)
fill_local_provider(m, t) == SkipPop(slist_cut_splice(m, GL, m.hd[GS], PL(t)), GS)

(***************************************************************************)
(* POP_PROVIDER (alloc_log_table, alloc_log_data, alloc_idx_entry,        *)
(* get_new_mmio): refill an empty provider, pop its first node, hand out  *)
(* the object and free the node.                                          *)
(***************************************************************************)
Acquire(t) ==
    /\ ~halted
    /\ hd[PL(t)] # Nil \/ hd[GS] # Nil
    /\ LET m == IF hd[PL(t)] = Nil THEN fill_local_provider(Mem, t) ELSE Mem
       IN /\ SetMem(ListPop(m, PL(t)))
          /\ inUse' = inUse \cup {m.hd[PL(t)]}
    /\ UNCHANGED halted

\* fill_local_provider finds the global skip list empty and exits.
AcquireExhausted(t) ==
    /\ ~halted
    /\ hd[PL(t)] = Nil /\ hd[GS] = Nil
    /\ halted' = TRUE
    /\ UNCHANGED <<hd, nxt, snx, cnt, inUse>>

(***************************************************************************)
(* put_local_collector: at a batch boundary, if the collector already     *)
(* keeps MAX_SKIP_NODES batches, splice its top batch onto the global     *)
(* list under the mutex and move its skip entry; then mark the new node   *)
(* if it starts a batch, and push it.  The spill also adds to the global *)
(* list_cnt and skip_cnt; fill_local_provider never subtracts, so they   *)
(* only grow, and nothing reads them after create_global_list: the model *)
(* keeps the global counts of creation and does not track that drift.    *)
(***************************************************************************)
Spill(m, t) ==
    LET s  == m.hd[CS(t)]
        m1 == SkipPop(slist_cut_splice(m, CL(t), s, GL), CS(t))
        m2 == SkipPush(m1, s, GS)
    IN Bump(Bump(m2, CL(t), -SkipUnit), CS(t), -1)

\* Mutation: the collector's skip_cnt is not decremented by a spill.
put_local_collector_keep_skip_cnt(m, o, t) ==
    LET Sp(mm) == Bump(Spill(mm, t), CS(t), 1)
        m1 == IF m.cnt[CL(t)] % SkipUnit = 0
              THEN Bump(SkipPush(IF m.cnt[CS(t)] >= MaxSkipNodes THEN Sp(m) ELSE m,
                                 o, CS(t)), CS(t), 1)
              ELSE m
    IN Bump(ListPush(m1, o, CL(t)), CL(t), 1)

\* Mutation: the collector spills only when it keeps more than MAX_SKIP_NODES.
put_local_collector_gt(m, o, t) ==
    LET m1 == IF m.cnt[CL(t)] % SkipUnit = 0
              THEN Bump(SkipPush(IF m.cnt[CS(t)] > MaxSkipNodes THEN Spill(m, t) ELSE m,
                                 o, CS(t)), CS(t), 1)
              ELSE m
    IN Bump(ListPush(m1, o, CL(t)), CL(t), 1)

\* Mutation: the node that ends a batch, not the one that starts it, is marked.
put_local_collector_late_mark(m, o, t) ==
    LET m1 == IF (m.cnt[CL(t)] + 1) % SkipUnit = 0
              THEN Bump(SkipPush(IF m.cnt[CS(t)] >= MaxSkipNodes THEN Spill(m, t) ELSE m,
                                 o, CS(t)), CS(t), 1)
              ELSE m
    IN Bump(ListPush(m1, o, CL(t)), CL(t), 1)

put_local_collector(m, o, t) ==
    LET m1 == IF m.cnt[CL(t)] % SkipUnit = 0
              THEN Bump(SkipPush(IF m.cnt[CS(t)] >= MaxSkipNodes THEN Spill(m, t) ELSE m,
                                 o, CS(t)), CS(t), 1)
              ELSE m
    IN Bump(ListPush(m1, o, CL(t)), CL(t), 1)

(***************************************************************************)
(* PUSH_COLLECTOR (free_log_table, free_log_data, free_idx_entry,         *)
(* release_mmio): any thread may free an object another thread allocated  *)
(* (the checkpoint thread frees the records writers created).             *)
(***************************************************************************)
Release(t, o) ==
    /\ ~halted
    /\ o \in inUse
    /\ SetMem(put_local_collector(Mem, o, t))
    /\ inUse' = inUse \ {o}
    /\ UNCHANGED halted

Next ==
    \E t \in Threads :
        \/ Acquire(t)
        \/ AcquireExhausted(t)
        \/ \E o \in inUse : Release(t, o)

Spec == Init /\ [][Next]_vars

-----------------------------------------------------------------------------
TypeOK ==
    /\ hd \in [Heads -> Objs \cup {Nil}]
    /\ nxt \in [Objs -> Objs \cup {Nil}]
    /\ snx \in [Objs -> Objs \cup {Nil}]
    /\ cnt \in [Heads -> 0 .. NrObjs]
    /\ inUse \subseteq Objs
    /\ halted \in BOOLEAN

\* The nodes reached from x by the links f, at most NrObjs + 1 of them (a
\* cycle or a shared tail shows up as a repeated node).
RECURSIVE Chain(_, _, _)
Chain(f, x, k) == IF x = Nil \/ k = 0 THEN <<>> ELSE <<x>> \o Chain(f, f[x], k - 1)

ListOf(h) == Chain(nxt, hd[h], NrObjs + 1)
SkipOf(h) == Chain(snx, hd[h], NrObjs + 1)

ListHeads == {GL} \cup {PL(t) : t \in Threads} \cup {CL(t) : t \in Threads}
Occurrences(s, o) == Cardinality({k \in DOMAIN s : s[k] = o})

(***************************************************************************)
(* Every object is owned exactly once: it is reachable exactly once from  *)
(* exactly one of the global list, a provider and a collector, or it is   *)
(* held by a caller, never both (spec: "no object is ever referenced from *)
(* two places"; conservation of the pool).  fill_local_provider and the   *)
(* spill of put_local_collector relink whole batches by their skip marks, *)
(* so a stale mark moves nodes owned elsewhere.                            *)
(***************************************************************************)
OwnedOnce ==
    \A o \in Objs :
        MapThenSumSet(LAMBDA h : Occurrences(ListOf(h), o), ListHeads)
          + (IF o \in inUse THEN 1 ELSE 0) = 1

(***************************************************************************)
(* The skip list of the global list and of each collector marks exactly   *)
(* the nodes that start a batch of skip_unit nodes, counted from the      *)
(* bottom, in list order; each collector's list_cnt and skip_cnt, which   *)
(* put_local_collector tests, equal its list and skip lengths.  This is   *)
(* what lets fill_local_provider and the spill detach a batch without     *)
(* walking the list.                                                      *)
(***************************************************************************)
MarksBatches(l, s) ==
    /\ Len(s) = (Len(l) + SkipUnit - 1) \div SkipUnit
    /\ \A k \in 1 .. Len(s) : s[k] = l[Len(l) - (Len(s) - k) * SkipUnit]

SkipMarksBatches ==
    /\ MarksBatches(ListOf(GL), SkipOf(GS))
    /\ \A t \in Threads :
         /\ MarksBatches(ListOf(CL(t)), SkipOf(CS(t)))
         /\ cnt[CL(t)] = Len(ListOf(CL(t)))
         /\ cnt[CS(t)] = Len(SkipOf(CS(t)))

(***************************************************************************)
(* A collector never keeps more than MAX_SKIP_NODES batches of freed      *)
(* objects: put_local_collector returns a batch to the global list before *)
(* it starts one more (spec: spill "to bound unreclaimed memory").        *)
(***************************************************************************)
CollectorRetention ==
    \A t \in Threads : Len(ListOf(CL(t))) <= MaxSkipNodes * SkipUnit
=============================================================================
