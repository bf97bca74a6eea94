\* The debug build (CONFIG_DEBUG_WW_MUTEX_SLOWPATH): two transaction threads,
\* three tickets so that a context is reused after ww_acquire_fini, two
\* mutexes: every transaction completes despite the injected -EDEADLKs.
CONSTANTS
    t1 = t1  t2 = t2  t3 = t3  a1 = a1  m1 = m1  m2 = m2
    NoCtx = NoCtx
    NoLock = NoLock
    Threads <- MCThreads2
    Anon <- MCAnon0
    Mutexes <- MCMutexes
    DebugBuilds <- MCDebug
    MaxTicket = 3
SPECIFICATION FairSpec
PROPERTY TxnCompletes
