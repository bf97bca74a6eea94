\* Three transaction threads, no context-free lockers (their trylocks may
\* take a free mutex before a woken waiter, without bound), two mutexes,
\* one transaction each: every transaction completes under weak fairness.
CONSTANTS
    t1 = t1  t2 = t2  t3 = t3  a1 = a1  m1 = m1  m2 = m2
    NoCtx = NoCtx
    NoLock = NoLock
    Threads <- MCThreads3
    Anon <- MCAnon0
    Mutexes <- MCMutexes
    DebugBuilds <- MCRelease
    MaxTicket = 3
SPECIFICATION FairSpec
PROPERTY TxnCompletes
