----------------------------- MODULE MCWWMutex -----------------------------
(* Instantiates WWMutex for TLC: model values for threads, context-free   *)
(* lockers, mutexes and the NULL pointers; the cfg files pick the sizes.   *)
EXTENDS WWMutex, TLC

CONSTANTS t1, t2, t3, a1, m1, m2

MCThreads2 == {t1, t2}
MCThreads3 == {t1, t2, t3}
MCAnon1 == {a1}
MCAnon0 == {}
MCMutexes == {m1, m2}
MCRelease == {FALSE}
MCDebug == {TRUE}
MCBothBuilds == BOOLEAN

Symm == Permutations(MCThreads3) \cup Permutations(MCMutexes)
=============================================================================
