\* Three transaction threads, one context-free locker, two mutexes,
\* three transactions in all: mutual exclusion and deadlock avoidance;
\* after a back-off the callers may retry their mutexes in any order.
CONSTANTS
    t1 = t1  t2 = t2  t3 = t3  a1 = a1  m1 = m1  m2 = m2
    NoCtx = NoCtx
    NoLock = NoLock
    Threads <- MCThreads3
    Anon <- MCAnon1
    Mutexes <- MCMutexes
    DebugBuilds <- MCRelease
    MaxTicket = 3
SYMMETRY Symm
SPECIFICATION AnyOrderSpec
INVARIANT MutualExclusion
INVARIANT NoUnflaggedWaitCycle
\* A caller that retries out of order can leave every caller asleep (the
\* deadlock NoUnflaggedWaitCycle admits after a WARN_ON); the liveness runs
\* show that callers keeping the slow-path contract never get stuck.
CHECK_DEADLOCK FALSE
