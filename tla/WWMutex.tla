------------------------------ MODULE WWMutex ------------------------------
(***************************************************************************)
(* The lightweight wound/wait mutex of src/core/ww_mutex.c and             *)
(* src/core/ww_mutex.h, together with the callers that drive it.           *)
(*                                                                         *)
(* One ww_class (its spinlock and its seqno ticket counter), a set of      *)
(* ww_mutexes of that class, a set of threads that each own one            *)
(* ww_acquire_ctx and run transactions with it, and a set of context-free  *)
(* lockers that call ww_mutex_trylock or ww_mutex_lock(lock, NULL).        *)
(*                                                                         *)
(* Every body of __wwl_mutex_lock runs inside spin_lock(&class->lock), so  *)
(* one evaluation of the decision function is one atomic step; the debug   *)
(* prologue before the spinlock touches only the caller's own context, so  *)
(* it joins that step.  A failed evaluation changes nothing (in a debug    *)
(* build it may reset the injection count once, after which the checks    *)
(* again change nothing), so the repeated checks that wait_event makes     *)
(* before it sleeps collapse into one step that queues the caller.         *)
(* DebugBuilds says whether CONFIG_DEBUG_WW_MUTEX_SLOWPATH is set.         *)
(* ww_mutex_unlock wakes every queued waiter (wake_up_all); a woken waiter *)
(* re-runs the whole decision function.                                    *)
(*                                                                         *)
(* The transaction protocol of the callers in Spec is the EDEADLK         *)
(* contract: lock the mutexes of the transaction in any order; on EDEADLK *)
(* unlock everything held and then lock the contended mutex first          *)
(* (ww_mutex_lock_slow); when all are held, or on EINTR, unlock everything *)
(* and call ww_acquire_fini.  AnyOrderSpec also lets a caller retry in any *)
(* order after the unlocks, which the code only WARNs about.               *)
(***************************************************************************)
EXTENDS Naturals, FiniteSets

CONSTANTS
    Threads,    \* threads, each with its own struct ww_acquire_ctx
    Anon,       \* context-free lockers (ctx == NULL)
    Mutexes,    \* the struct ww_mutex objects of the one ww_class
    NoCtx,      \* the NULL ww_acquire_ctx pointer
    NoLock,     \* the NULL ww_mutex pointer
    MaxTicket,  \* bound on the class seqno: the number of ww_acquire_init
    DebugBuilds \* the builds checked: CONFIG_DEBUG_WW_MUTEX_SLOWPATH set or not

ASSUME /\ Threads \cap Anon = {}
       /\ NoCtx \notin Threads
       /\ NoLock \notin Mutexes
       /\ MaxTicket \in Nat
       /\ DebugBuilds \subseteq BOOLEAN

VARIABLES
    \* struct ww_mutex
    held,        \* lock->held
    holder,      \* lock->holder: a thread's ctx or NoCtx
    queue,       \* lock->queue: callers asleep on it, not yet woken
    \* struct ww_class
    seqno,       \* class->seqno
    \* struct ww_acquire_ctx, one per thread
    ticket,      \* ctx->ticket
    contending,  \* ctx->contending_lock
    dbgInject,   \* ctx->deadlock_injection
    dbgCount,    \* ctx->count
    \* the build
    debug,       \* CONFIG_DEBUG_WW_MUTEX_SLOWPATH is set
    warned,      \* the WARN_ON of __wwl_mutex_lock has fired (TAINT_WARN)
    \* the transaction each thread runs
    pc,          \* "idle", "run", "wait", "backoff" or "release"
    want,        \* the mutexes the transaction must lock
    mine,        \* the mutexes it holds
    waitOn,      \* the mutex it is blocked on in wait_event
    intr,        \* TRUE when that call is ww_mutex_lock_interruptible
    \* the context-free lockers
    apc,         \* "idle", "wait" or "hold"
    aLock        \* the mutex an anonymous locker holds or waits for

mutexVars == <<held, holder, queue>>
ctxVars   == <<seqno, ticket, contending, dbgInject, dbgCount, debug, warned>>
txnVars   == <<pc, want, mine, waitOn, intr>>
anonVars  == <<apc, aLock>>
vars == <<mutexVars, ctxVars, txnVars, anonVars>>

Actors == Threads \cup Anon

(* ww_class initialised by DEFINE_WW_CLASS, every mutex by ww_mutex_init. *)
Init ==
    /\ held = [m \in Mutexes |-> FALSE]
    /\ holder = [m \in Mutexes |-> NoCtx]
    /\ queue = [m \in Mutexes |-> {}]
    /\ seqno = 0
    /\ ticket = [t \in Threads |-> 0]
    /\ contending = [t \in Threads |-> NoLock]
    /\ dbgInject = [t \in Threads |-> 1]
    /\ dbgCount = [t \in Threads |-> 0]
    /\ debug \in DebugBuilds
    /\ warned = FALSE
    /\ pc = [t \in Threads |-> "idle"]
    /\ want = [t \in Threads |-> {}]
    /\ mine = [t \in Threads |-> {}]
    /\ waitOn = [t \in Threads |-> NoLock]
    /\ intr = [t \in Threads |-> FALSE]
    /\ apc = [a \in Anon |-> "idle"]
    /\ aLock = [a \in Anon |-> NoLock]

-----------------------------------------------------------------------------
(* Faulty variants of the operations below, each the way a slip in the     *)
(* code would change it.  The specification never uses them.              *)

(* Decide reading "holder == NULL" as "free" instead of testing held.     *)
DecideNullHolderFree(c, m) ==
    IF holder[m] = NoCtx THEN "grant"
    ELSE IF c # NoCtx /\ holder[m] = c THEN "already"
    ELSE IF /\ c # NoCtx
            /\ contending[c] # m
            /\ holder[m] # NoCtx
            /\ ticket[holder[m]] < ticket[c] THEN "deadlk"
    ELSE "block"

(* Decide without the -EDEADLK branch: a contended caller always sleeps.  *)
DecideNoBackoff(c, m) ==
    IF ~held[m] THEN "grant"
    ELSE IF c # NoCtx /\ holder[m] = c THEN "already"
    ELSE "block"

(* ww_mutex_unlock waking one sleeper instead of all of them, as wake_up  *)
(* would if the waiters slept as exclusive waiters.                       *)
ReleaseWakeOne(m) ==
    /\ held' = [held EXCEPT ![m] = FALSE]
    /\ holder' = [holder EXCEPT ![m] = NoCtx]
    /\ \/ queue[m] = {} /\ UNCHANGED queue
       \/ \E w \in queue[m] : queue' = [queue EXCEPT ![m] = @ \ {w}]

-----------------------------------------------------------------------------
(* The decision function __wwl_mutex_lock for caller context c (NoCtx for  *)
(* a context-free call): its if / else-if chain, in the code's order.      *)
Decide(c, m) ==
    IF ~held[m] THEN "grant"
    ELSE IF c # NoCtx /\ holder[m] = c THEN "already"
    ELSE IF /\ c # NoCtx
            /\ contending[c] # m
            /\ holder[m] # NoCtx
            /\ ticket[holder[m]] < ticket[c] THEN "deadlk"
    ELSE "block"

(* The mutex lock[m] after a grant to context c (held = true, holder = c). *)
Take(m, c) ==
    /\ held' = [held EXCEPT ![m] = TRUE]
    /\ holder' = [holder EXCEPT ![m] = c]

(* __wwl_mutex_lock returns -EDEADLK to thread t for mutex m: m becomes   *)
(* the contended mutex, and the caller backs off if it holds anything.    *)
BackOff(t, m) ==
    /\ contending' = [contending EXCEPT ![t] = m]
    /\ pc' = [pc EXCEPT ![t] = IF mine[t] = {} THEN "run" ELSE "backoff"]
    /\ waitOn' = [waitOn EXCEPT ![t] = NoLock]
    /\ intr' = [intr EXCEPT ![t] = FALSE]
    /\ UNCHANGED <<mutexVars, mine>>

(* The spinlocked part of __wwl_mutex_lock(m, t's ctx) by thread t inside *)
(* ww_mutex_lock (i = FALSE) or ww_mutex_lock_interruptible (i = TRUE),    *)
(* and what that function does with the outcome: return 0, -EALREADY or    *)
(* -EDEADLK, or go to sleep on lock->queue.  Which function is running     *)
(* matters only while the thread sleeps, so intr is kept only then.        *)
Evaluate(t, m, i) ==
    \/ /\ Decide(t, m) = "grant"
       /\ Take(m, t)
       /\ contending' = [contending EXCEPT ![t] =
                            IF @ = m THEN NoLock ELSE @]
       /\ mine' = [mine EXCEPT ![t] = @ \cup {m}]
       /\ pc' = [pc EXCEPT ![t] =
                    IF want[t] \subseteq mine'[t] THEN "release" ELSE "run"]
       /\ waitOn' = [waitOn EXCEPT ![t] = NoLock]
       /\ intr' = [intr EXCEPT ![t] = FALSE]
       /\ UNCHANGED queue
    \/ /\ Decide(t, m) = "already"
       /\ pc' = [pc EXCEPT ![t] = "run"]
       /\ waitOn' = [waitOn EXCEPT ![t] = NoLock]
       /\ intr' = [intr EXCEPT ![t] = FALSE]
       /\ UNCHANGED <<mutexVars, contending, mine>>
    \/ /\ Decide(t, m) = "deadlk"
       /\ BackOff(t, m)
    \/ /\ Decide(t, m) = "block"
       /\ queue' = [queue EXCEPT ![m] = @ \cup {t}]
       /\ pc' = [pc EXCEPT ![t] = "wait"]
       /\ waitOn' = [waitOn EXCEPT ![t] = m]
       /\ intr' = [intr EXCEPT ![t] = i]
       /\ UNCHANGED <<held, holder, contending, mine>>

(* With CONFIG_DEBUG_WW_MUTEX_SLOWPATH a context's count of grants is     *)
(* checked against deadlock_injection before the class spinlock is taken. *)
InjectDue(t) == debug /\ dbgCount[t] = dbgInject[t]

(* Mutant: the warning given only when the mutex is held, as if it sat   *)
(* in the contended branch below the grant.                               *)
MisorderWarnHeld(t, m) == contending[t] # NoLock /\ contending[t] # m /\ held[m]

(* WARN_ON(ctx && ctx->contending_lock && ctx->contending_lock != lock):  *)
(* a context that backed off locks a mutex other than the contended one.  *)
MisorderWarn(t, m) == contending[t] # NoLock /\ contending[t] # m

(* Mutant: the debug prologue without "deadlock_injection *= 2", so an *)
(* injection is due again after every single grant.                      *)
AttemptNoDouble(t, m, i) ==
    LET due == InjectDue(t) IN
    /\ warned' = (warned \/ MisorderWarn(t, m))
    /\ UNCHANGED dbgInject
    /\ IF due /\ contending[t] # m
       THEN /\ dbgCount' = [dbgCount EXCEPT ![t] = 0]
            /\ BackOff(t, m)
       ELSE LET count0 == IF due THEN 0 ELSE dbgCount[t]
            IN  /\ dbgCount' = [dbgCount EXCEPT ![t] =
                      IF debug /\ Decide(t, m) = "grant" THEN count0 + 1 ELSE count0]
                /\ Evaluate(t, m, i)

(* One evaluation of __wwl_mutex_lock(m, t's ctx), which first warns of *)
(* a call on another mutex than the contended one.  When an injection is  *)
(* due, deadlock_injection doubles and count restarts; unless m is        *)
(* already the contended mutex the call returns -EDEADLK whatever the     *)
(* state of m.  Otherwise the spinlocked decision runs, and a grant       *)
(* counts one more acquisition in a debug build.                          *)
Attempt(t, m, i) ==
    /\ warned' = (warned \/ MisorderWarn(t, m))
    /\ dbgInject' = [dbgInject EXCEPT ![t] = IF InjectDue(t) THEN 2 * @ ELSE @]
    /\ IF InjectDue(t) /\ contending[t] # m
       THEN /\ dbgCount' = [dbgCount EXCEPT ![t] = 0]
            /\ BackOff(t, m)
       ELSE LET count0 == IF InjectDue(t) THEN 0 ELSE dbgCount[t]
            IN  /\ dbgCount' = [dbgCount EXCEPT ![t] =
                      IF debug /\ Decide(t, m) = "grant" THEN count0 + 1 ELSE count0]
                /\ Evaluate(t, m, i)

-----------------------------------------------------------------------------
(* ww_acquire_init: draw a ticket from the class counter.  The transaction *)
(* it starts will lock the nonempty set W of mutexes.                      *)
Begin(t) ==
    /\ pc[t] = "idle"
    /\ seqno < MaxTicket
    /\ seqno' = seqno + 1
    /\ ticket' = [ticket EXCEPT ![t] = seqno + 1]
    /\ contending' = [contending EXCEPT ![t] = NoLock]
    /\ dbgInject' = [dbgInject EXCEPT ![t] = 1]
    /\ dbgCount' = [dbgCount EXCEPT ![t] = 0]
    /\ \E W \in SUBSET Mutexes \ {{}} : want' = [want EXCEPT ![t] = W]
    /\ pc' = [pc EXCEPT ![t] = "run"]
    /\ UNCHANGED <<mutexVars, debug, warned, mine, waitOn, intr, anonVars>>

(* ww_mutex_lock(m, ctx) (i = FALSE) or ww_mutex_lock_interruptible        *)
(* (i = TRUE) on a mutex of the transaction it does not hold yet.          *)
Lock(t, m, i) ==
    /\ pc[t] = "run"
    /\ m \in want[t] \ mine[t]
    /\ Attempt(t, m, i)
    /\ UNCHANGED <<seqno, ticket, debug, want, anonVars>>

(* ww_mutex_lock(m, ctx) on a mutex the same context already holds.       *)
Relock(t, m) ==
    /\ pc[t] = "run"
    /\ m \in mine[t]
    /\ Attempt(t, m, FALSE)
    /\ UNCHANGED <<seqno, ticket, debug, want, anonVars>>

(* A woken waiter of wait_event / wait_event_interruptible re-evaluates    *)
(* __wwl_mutex_lock; when it fails again it goes back to sleep.            *)
Retry(t) ==
    /\ pc[t] = "wait"
    /\ t \notin queue[waitOn[t]]
    /\ Attempt(t, waitOn[t], intr[t])
    /\ UNCHANGED <<seqno, ticket, debug, want, anonVars>>

(* A signal ends wait_event_interruptible: the caller is taken off the     *)
(* queue and ww_mutex_lock_interruptible returns its initial err, -EINTR.  *)
(* The caller abandons the transaction.                                    *)
Interrupt(t) ==
    /\ pc[t] = "wait"
    /\ intr[t]
    /\ queue' = [queue EXCEPT ![waitOn[t]] = @ \ {t}]
    /\ pc' = [pc EXCEPT ![t] = "release"]
    /\ waitOn' = [waitOn EXCEPT ![t] = NoLock]
    /\ intr' = [intr EXCEPT ![t] = FALSE]
    /\ UNCHANGED <<held, holder, ctxVars, want, mine, anonVars>>

(* ww_mutex_unlock on a mutex the caller holds: clear held and holder and  *)
(* wake every waiter.                                                      *)
Release(m) ==
    /\ held' = [held EXCEPT ![m] = FALSE]
    /\ holder' = [holder EXCEPT ![m] = NoCtx]
    /\ queue' = [queue EXCEPT ![m] = {}]

(* A thread unlocks one of its mutexes, while backing off after EDEADLK or *)
(* while releasing a finished or interrupted transaction.  Once a back-off *)
(* has unlocked everything the thread goes on with ww_mutex_lock_slow.     *)
Unlock(t, m) ==
    /\ pc[t] \in {"backoff", "release"}
    /\ m \in mine[t]
    /\ Release(m)
    /\ mine' = [mine EXCEPT ![t] = @ \ {m}]
    /\ pc' = [pc EXCEPT ![t] =
                IF @ = "backoff" /\ mine'[t] = {} THEN "run" ELSE @]
    /\ UNCHANGED <<ctxVars, want, waitOn, intr, anonVars>>

(* ww_acquire_fini once every mutex of the transaction is unlocked.        *)
Fini(t) ==
    /\ pc[t] = "release"
    /\ mine[t] = {}
    /\ pc' = [pc EXCEPT ![t] = "idle"]
    /\ want' = [want EXCEPT ![t] = {}]
    /\ UNCHANGED <<mutexVars, ctxVars, mine, waitOn, intr, anonVars>>

-----------------------------------------------------------------------------
(* ww_mutex_trylock(m): one evaluation of __wwl_mutex_lock(m, NULL); it    *)
(* returns 1 when it took the mutex and 0 (busy) otherwise, never sleeps.  *)
TryLock(a, m) ==
    /\ apc[a] = "idle"
    /\ Decide(NoCtx, m) = "grant"
    /\ Take(m, NoCtx)
    /\ apc' = [apc EXCEPT ![a] = "hold"]
    /\ aLock' = [aLock EXCEPT ![a] = m]
    /\ UNCHANGED <<queue, ctxVars, txnVars>>

(* ww_mutex_lock(m, NULL): grant, or sleep on lock->queue and retry on     *)
(* each wake-up.  Without a context it never returns -EDEADLK/-EALREADY.   *)
AnonAttempt(a, m) ==
    \/ /\ Decide(NoCtx, m) = "grant"
       /\ Take(m, NoCtx)
       /\ apc' = [apc EXCEPT ![a] = "hold"]
       /\ UNCHANGED queue
    \/ /\ Decide(NoCtx, m) = "block"
       /\ queue' = [queue EXCEPT ![m] = @ \cup {a}]
       /\ apc' = [apc EXCEPT ![a] = "wait"]
       /\ UNCHANGED <<held, holder>>

AnonLock(a, m) ==
    /\ apc[a] = "idle"
    /\ aLock' = [aLock EXCEPT ![a] = m]
    /\ AnonAttempt(a, m)
    /\ UNCHANGED <<ctxVars, txnVars>>

AnonRetry(a) ==
    /\ apc[a] = "wait"
    /\ a \notin queue[aLock[a]]
    /\ AnonAttempt(a, aLock[a])
    /\ UNCHANGED <<aLock, ctxVars, txnVars>>

AnonUnlock(a) ==
    /\ apc[a] = "hold"
    /\ Release(aLock[a])
    /\ apc' = [apc EXCEPT ![a] = "idle"]
    /\ aLock' = [aLock EXCEPT ![a] = NoLock]
    /\ UNCHANGED <<ctxVars, txnVars>>

-----------------------------------------------------------------------------
(* Every ticket is spent and every caller is idle: the bounded model ends. *)
Terminating ==
    /\ seqno = MaxTicket
    /\ \A t \in Threads : pc[t] = "idle"
    /\ \A a \in Anon : apc[a] = "idle"
    /\ UNCHANGED vars

(* The slow-path contract: after a back-off the first call is             *)
(* ww_mutex_lock_slow on the contended mutex.                              *)
SlowPathFirst(t, m) == contending[t] # NoLock /\ mine[t] = {} => m = contending[t]

ThreadStep(t) ==
    \/ \E m \in Mutexes, i \in BOOLEAN : SlowPathFirst(t, m) /\ Lock(t, m, i)
    \/ \E m \in Mutexes : Relock(t, m)
    \/ Retry(t)
    \/ \E m \in Mutexes : Unlock(t, m)
    \/ Fini(t)

AnonStep(a) ==
    \/ AnonRetry(a)
    \/ AnonUnlock(a)

Next ==
    \/ \E t \in Threads : Begin(t) \/ ThreadStep(t) \/ Interrupt(t)
    \/ \E a \in Anon : AnonStep(a)
    \/ \E a \in Anon, m \in Mutexes : TryLock(a, m) \/ AnonLock(a, m)
    \/ Terminating

(* ww_mutex_unlock called by a thread on a mutex that is held but not by  *)
(* it.  The function takes no context and checks nothing: it clears held  *)
(* and holder and wakes the waiters whoever holds the mutex.              *)
StrayUnlock(t, m) ==
    /\ pc[t] = "run"
    /\ held[m]
    /\ m \notin mine[t]
    /\ Release(m)
    /\ UNCHANGED <<ctxVars, txnVars, anonVars>>

(* Callers that after a back-off may retry the transaction in any order,  *)
(* taking another mutex before the contended one.                         *)
AnyOrderNext ==
    Next \/ \E t \in Threads, m \in Mutexes, i \in BOOLEAN :
               ~SlowPathFirst(t, m) /\ Lock(t, m, i)
AnyOrderSpec == Init /\ [][AnyOrderNext]_vars

(* Callers that may also unlock a mutex they do not hold.                 *)
MisuseNext == Next \/ \E t \in Threads, m \in Mutexes : StrayUnlock(t, m)
MisuseSpec == Init /\ [][MisuseNext]_vars

(* A thread that has started a transaction keeps being scheduled, and a    *)
(* woken waiter eventually runs: weak fairness on each thread's own steps. *)
(* Starting a transaction, taking a mutex without a context and signals    *)
(* are up to the environment and carry no fairness.                        *)
Fairness ==
    /\ \A t \in Threads : WF_vars(ThreadStep(t))
    /\ \A a \in Anon : WF_vars(AnonStep(a))

Spec == Init /\ [][Next]_vars
FairSpec == Spec /\ Fairness

-----------------------------------------------------------------------------
(* The callers that believe they hold m: threads through their            *)
(* transaction, context-free lockers through a successful lock.           *)
Owners(m) ==
    {t \in Threads : m \in mine[t]} \cup
    {a \in Anon : apc[a] = "hold" /\ aLock[a] = m}

(* A caller asleep on lock->queue, not yet woken, waits for the owner.    *)
WaitsFor ==
    {<<x, o>> \in Actors \X Actors :
        \E m \in Mutexes : x \in queue[m] /\ o \in Owners(m)}

(* Mutual exclusion, and the mutex words agree with the callers: at most  *)
(* one caller owns each mutex, lock->held is set exactly when one does,   *)
(* and lock->holder names the owning context, NULL for a context-free     *)
(* owner.  Breaks if the decision function grants a held mutex, e.g. by   *)
(* taking "holder == NULL" for "free" while a trylock caller holds it.    *)
MutualExclusion ==
    \A m \in Mutexes :
        /\ Cardinality(Owners(m)) <= 1
        /\ held[m] <=> Owners(m) # {}
        /\ \A t \in Threads : holder[m] = t <=> m \in mine[t]

(* Mutual exclusion as the callers see it: at most one caller believes it *)
(* holds each mutex.  A ww_mutex_unlock by a caller that does not hold the *)
(* mutex leaves its owner holding it, and breaks this only when a second  *)
(* caller is then granted the mutex by __wwl_mutex_lock.                  *)
SingleOwner == \A m \in Mutexes : Cardinality(Owners(m)) <= 1

(* The waits-for graph of sleeping callers has no cycle. *)
NoWaitCycle ==
    LET R == WaitsFor
        Succ(S) == {o \in Actors : \E x \in S : <<x, o>> \in R}
        \* the callers x waits for, directly or through a chain
        From(x) == LET F[n \in Nat] == IF n = 0 THEN Succ({x})
                                       ELSE F[n - 1] \cup Succ(F[n - 1])
                   IN  F[Cardinality(Actors)]
    IN  \A x \in {e[1] : e \in R} : x \notin From(x)

(* Deadlock avoidance, for callers that retry in any order: while no      *)
(* WARN_ON has fired the waits-for graph has no cycle.  The ticket         *)
(* comparison of __wwl_mutex_lock makes the younger of two contenders back *)
(* off, and its contending_lock exemption lets the younger one sleep       *)
(* behind the older only after it released everything; a caller that      *)
(* takes another mutex first is flagged by the WARN_ON at that call.       *)
NoUnflaggedWaitCycle == ~warned => NoWaitCycle

(* Livelock and starvation freedom among transactions: every transaction  *)
(* a thread starts with ww_acquire_init reaches ww_acquire_fini.  Needs   *)
(* wake_up_all in ww_mutex_unlock (a woken waiter that backs off does not *)
(* pass a single wake-up on), the -EALREADY answer to a self-relock, and  *)
(* that the oldest transaction never backs off.                           *)
TxnCompletes ==
    \A t \in Threads : pc[t] # "idle" ~> pc[t] = "idle"

=============================================================================
