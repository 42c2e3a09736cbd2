------------------------------- MODULE Bravo -------------------------------
(***************************************************************************)
(* bravo.c: a BRAVO reader-writer lock over a pthread rwlock.  A reader   *)
(* of a read-biased lock publishes itself by a CAS of the lock into its   *)
(* slot of visible_readers (slot = bravo_hash of thread and lock) and     *)
(* then rechecks rbias; otherwise it takes the underlying read lock.  A  *)
(* writer takes the underlying write lock and, if the lock is read-       *)
(* biased, revokes the bias and waits until no slot names the lock.       *)
(*                                                                         *)
(* Each numbered step of the code that touches shared state is a step     *)
(* here; memory is sequentially consistent.  The clock enters only as    *)
(* "now >= inhibit_until", a free choice at each slow-path read.  A       *)
(* thread holds at most one BRAVO lock at a time.  pc "rd" and "w" mean   *)
(* the call returned with the lock held.                                  *)
(***************************************************************************)
EXTENDS Integers

CONSTANTS
    Threads,
    Locks,
    NrSlots,    \* NR_ENTRIES
    Hash,       \* bravo_hash: [Threads \X Locks -> 1..NrSlots]
    NULL

Slots == 1 .. NrSlots

ASSUME Hash \in [Threads \X Locks -> Slots]

VARIABLES
    rbias,      \* l->rbias
    visible,    \* visible_readers[]
    urd,        \* readers holding l->underlying
    uwr,        \* the writer holding l->underlying, or NULL
    pc,         \* the step each thread is at
    lk,         \* the lock the thread's current call is on
    try,        \* the current read is bravo_read_trylock
    si          \* revocate's loop index i

vars == <<rbias, visible, urd, uwr, pc, lk, try, si>>

Slot(t) == Hash[<<t, lk[t]>>]

\* bravo_rwlock_init of every lock; visible_readers starts zeroed.
Init ==
    /\ rbias = [l \in Locks |-> TRUE]
    /\ visible = [s \in Slots |-> NULL]
    /\ urd = [l \in Locks |-> 0]
    /\ uwr = [l \in Locks |-> NULL]
    /\ pc = [t \in Threads |-> "idle"]
    /\ lk \in [Threads -> Locks]
    /\ try = [t \in Threads |-> FALSE]
    /\ si = [t \in Threads |-> 1]

Goto(t, p) == pc' = [pc EXCEPT ![t] = p]

\* bravo_read_lock / bravo_read_trylock: "if (l->rbias)" picks the path.
bravo_read_lock(t, l, tr) ==
    /\ pc[t] = "idle"
    /\ lk' = [lk EXCEPT ![t] = l]
    /\ try' = [try EXCEPT ![t] = tr]
    /\ Goto(t, IF rbias[l] THEN "cas" ELSE "slow")
    /\ UNCHANGED <<rbias, visible, urd, uwr, si>>

\* __sync_bool_compare_and_swap(&visible_readers[slot], NULL, l).
ReadCas(t) ==
    /\ pc[t] = "cas"
    /\ IF visible[Slot(t)] = NULL
         THEN /\ visible' = [visible EXCEPT ![Slot(t)] = lk[t]]
              /\ Goto(t, "recheck")
         ELSE /\ Goto(t, "slow")
              /\ UNCHANGED visible
    /\ UNCHANGED <<rbias, urd, uwr, lk, try, si>>

\* Mutant: the fast path returns without rechecking rbias.
ReadRecheck_none(t) ==
    /\ pc[t] = "recheck"
    /\ Goto(t, "rd")
    /\ UNCHANGED <<rbias, visible, urd, uwr, lk, try, si>>

\* The second "if (l->rbias)": return on the fast path, or clear the slot.
ReadRecheck(t) ==
    /\ pc[t] = "recheck"
    /\ IF rbias[lk[t]]
         THEN /\ Goto(t, "rd")
              /\ UNCHANGED visible
         ELSE /\ visible' = [visible EXCEPT ![Slot(t)] = NULL]
              /\ Goto(t, "slow")
    /\ UNCHANGED <<rbias, urd, uwr, lk, try, si>>

\* Slow path: pthread_rwlock_rdlock (blocks while a writer holds it), then
\* re-enable the bias once the inhibition period has passed.
ReadSlow(t) ==
    /\ pc[t] = "slow"
    /\ uwr[lk[t]] = NULL
    /\ urd' = [urd EXCEPT ![lk[t]] = @ + 1]
    /\ \E expired \in BOOLEAN :
         rbias' = IF ~rbias[lk[t]] /\ expired
                    THEN [rbias EXCEPT ![lk[t]] = TRUE] ELSE rbias
    /\ Goto(t, "rd")
    /\ UNCHANGED <<visible, uwr, lk, try, si>>

\* bravo_read_trylock: pthread_rwlock_tryrdlock fails under a writer.
ReadTryFail(t) ==
    /\ pc[t] = "slow"
    /\ try[t]
    /\ uwr[lk[t]] # NULL
    /\ Goto(t, "idle")
    /\ UNCHANGED <<rbias, visible, urd, uwr, lk, try, si>>

(***************************************************************************)
(* bravo_read_unlock: a non-NULL slot is cleared, whatever lock it names; *)
(* only an empty slot releases the underlying read lock.                  *)
(***************************************************************************)
\* Mutant: every unlock releases the underlying read lock.
bravo_read_unlock_underlying(t) ==
    /\ pc[t] = "rd"
    /\ urd' = [urd EXCEPT ![lk[t]] = @ - 1]
    /\ Goto(t, "idle")
    /\ UNCHANGED <<rbias, visible, uwr, lk, try, si>>

bravo_read_unlock(t) ==
    /\ pc[t] = "rd"
    /\ IF visible[Slot(t)] # NULL
         THEN /\ visible' = [visible EXCEPT ![Slot(t)] = NULL]
              /\ UNCHANGED urd
         ELSE /\ urd' = [urd EXCEPT ![lk[t]] = @ - 1]
              /\ UNCHANGED visible
    /\ Goto(t, "idle")
    /\ UNCHANGED <<rbias, uwr, lk, try, si>>

\* bravo_write_lock / bravo_write_trylock: take the underlying write lock
\* (a failed trywrlock changes nothing) and revocate if read-biased:
\* rbias = false, then scan the slots.
bravo_write_lock(t, l) ==
    /\ pc[t] = "idle"
    /\ uwr[l] = NULL /\ urd[l] = 0
    /\ uwr' = [uwr EXCEPT ![l] = t]
    /\ lk' = [lk EXCEPT ![t] = l]
    /\ IF rbias[l]
         THEN /\ rbias' = [rbias EXCEPT ![l] = FALSE]
              /\ si' = [si EXCEPT ![t] = 1]
              /\ Goto(t, "scan")
         ELSE /\ Goto(t, "w")
              /\ UNCHANGED <<rbias, si>>
    /\ UNCHANGED <<visible, urd, try>>

\* revocate: "while (visible_readers[i] == l) usleep(1);" for each i; the
\* inhibit_until it then computes is the free choice of ReadSlow.
Revocate(t) ==
    /\ pc[t] = "scan"
    /\ visible[si[t]] # lk[t]
    /\ IF si[t] = NrSlots
         THEN /\ Goto(t, "w")
              /\ UNCHANGED si
         ELSE /\ si' = [si EXCEPT ![t] = @ + 1]
              /\ UNCHANGED pc
    /\ UNCHANGED <<rbias, visible, urd, uwr, lk, try>>

bravo_write_unlock(t) ==
    /\ pc[t] = "w"
    /\ uwr' = [uwr EXCEPT ![lk[t]] = NULL]
    /\ Goto(t, "idle")
    /\ UNCHANGED <<rbias, visible, urd, lk, try, si>>

Next ==
    \E t \in Threads :
        \/ \E l \in Locks, tr \in BOOLEAN : bravo_read_lock(t, l, tr)
        \/ ReadCas(t)
        \/ ReadRecheck(t)
        \/ ReadSlow(t)
        \/ ReadTryFail(t)
        \/ bravo_read_unlock(t)
        \/ \E l \in Locks : bravo_write_lock(t, l)
        \/ Revocate(t)
        \/ bravo_write_unlock(t)

Spec == Init /\ [][Next]_vars

-----------------------------------------------------------------------------
TypeOK ==
    /\ rbias \in [Locks -> BOOLEAN]
    /\ visible \in [Slots -> Locks \cup {NULL}]
    /\ urd \in [Locks -> Nat]
    /\ uwr \in [Locks -> Threads \cup {NULL}]
    /\ pc \in [Threads -> {"idle", "cas", "recheck", "slow", "rd",
                           "scan", "w"}]
    /\ lk \in [Threads -> Locks]
    /\ try \in [Threads -> BOOLEAN]
    /\ si \in [Threads -> Slots]

(***************************************************************************)
(* Refinement mapping: the threads whose bravo_read_lock has returned and *)
(* not yet unlocked read the lock; the one whose bravo_write_lock has     *)
(* returned writes it.                                                    *)
(***************************************************************************)
ReadersOf(l) == {t \in Threads : pc[t] = "rd" /\ lk[t] = l}
WriterOf(l) ==
    IF \E t \in Threads : pc[t] = "w" /\ lk[t] = l
      THEN CHOOSE t \in Threads : pc[t] = "w" /\ lk[t] = l
      ELSE NULL

RW == INSTANCE RWLock WITH
        readers <- [l \in Locks |-> ReadersOf(l)],
        writer <- [l \in Locks |-> WriterOf(l)]

\* Every behaviour of the BRAVO lock is one of a reader-writer lock: no
\* reader returns from bravo_read_lock while a writer holds the lock, and
\* bravo_write_lock returns only when no reader holds it.
ImplementsRWLock == RW!Spec
=============================================================================
