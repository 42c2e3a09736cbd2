------------------------------ MODULE RWLock -------------------------------
(***************************************************************************)
(* What a reader-writer lock promises, for a set of locks: any number of  *)
(* readers or one writer hold a lock, never both.  This is the interface  *)
(* of bravo.h (bravo_read_lock / bravo_read_unlock / bravo_write_lock /   *)
(* bravo_write_unlock); Bravo.tla is checked to implement it.             *)
(***************************************************************************)
CONSTANTS Threads, Locks, NULL

VARIABLES readers, writer

vars == <<readers, writer>>

Init ==
    /\ readers = [l \in Locks |-> {}]
    /\ writer = [l \in Locks |-> NULL]

AcquireRead(t, l) ==
    /\ writer[l] = NULL
    /\ t \notin readers[l]
    /\ readers' = [readers EXCEPT ![l] = @ \cup {t}]
    /\ UNCHANGED writer

ReleaseRead(t, l) ==
    /\ t \in readers[l]
    /\ readers' = [readers EXCEPT ![l] = @ \ {t}]
    /\ UNCHANGED writer

AcquireWrite(t, l) ==
    /\ writer[l] = NULL
    /\ readers[l] = {}
    /\ writer' = [writer EXCEPT ![l] = t]
    /\ UNCHANGED readers

ReleaseWrite(t, l) ==
    /\ writer[l] = t
    /\ writer' = [writer EXCEPT ![l] = NULL]
    /\ UNCHANGED readers

Next ==
    \E t \in Threads, l \in Locks :
        \/ AcquireRead(t, l)
        \/ ReleaseRead(t, l)
        \/ AcquireWrite(t, l)
        \/ ReleaseWrite(t, l)

Spec == Init /\ [][Next]_vars

\* Readers and a writer never hold one lock together.
Exclusion == \A l \in Locks : writer[l] # NULL => readers[l] = {}
=============================================================================
