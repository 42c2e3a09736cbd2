------------------------------ MODULE MCBravo ------------------------------
EXTENDS Bravo

CONSTANTS t1, t2, t3, l1, l2

MCThreads == {t1, t2, t3}
MCLocks == {l1, l2}

\* A bravo_hash with a slot of its own for every thread and lock.
DistinctHash ==
    [x \in MCThreads \X MCLocks |->
        CASE x = <<t1, l1>> -> 1 [] x = <<t2, l1>> -> 2 [] x = <<t3, l1>> -> 3
          [] x = <<t1, l2>> -> 4 [] x = <<t2, l2>> -> 5 [] x = <<t3, l2>> -> 6]

\* A bravo_hash where t1 on l1 and t2 on l2 share slot 1.
CollidingHash ==
    [x \in MCThreads \X MCLocks |->
        CASE x = <<t1, l1>> -> 1 [] x = <<t2, l1>> -> 2 [] x = <<t3, l1>> -> 3
          [] x = <<t1, l2>> -> 2 [] x = <<t2, l2>> -> 1 [] x = <<t3, l2>> -> 3]
=============================================================================
