SPECIFICATION TokenFairSpec
CONSTANTS
    w1 = w1
    w2 = w2
    w3 = w3
    c1 = c1
    c2 = c2
    Waiters <- MCWaiters
    Cancellers <- MCCancellers
INVARIANTS
    NoLostWakeup
PROPERTIES
    ImplementsLatch
\* Every canceller done and every waiter released: the token's work is over.
CHECK_DEADLOCK FALSE
