\* Callers that may call ww_mutex_unlock on a mutex someone else holds:
\* a second caller is granted a mutex its owner still holds, where the
\* spec asks for a defined error.
CONSTANTS
    t1 = t1  t2 = t2  t3 = t3  a1 = a1  m1 = m1  m2 = m2
    NoCtx = NoCtx
    NoLock = NoLock
    Threads <- MCThreads2
    Anon <- MCAnon1
    Mutexes <- MCMutexes
    DebugBuilds <- MCRelease
    MaxTicket = 2
SPECIFICATION MisuseSpec
INVARIANT SingleOwner
