------------------------------- MODULE KRef -------------------------------
(***************************************************************************)
(* The reference-count helpers of the compatibility headers:              *)
(* kref_get_unless_zero (src/common_compat.h), which the driver uses on    *)
(* objects it finds through a lookup table, and kref_sub                   *)
(* (vmwgfx_kref_sub in src/vmwgfx_compat.h), which drops several           *)
(* references at once and calls the release callback when the count hits *)
(* zero.  Both are single atomic operations on kref->refcount.            *)
(*                                                                         *)
(* One object: its creator holds the first reference, and every thread    *)
(* may look it up in the table and take more.  The release callback       *)
(* takes the object out of the table; its memory is freed after an RCU    *)
(* grace period, so a lookup in progress still reads a valid counter.     *)
(***************************************************************************)
EXTENDS Naturals

CONSTANTS
    Threads,
    Creator,    \* the thread that created the object
    MaxRefs     \* bound on the references one thread holds

ASSUME Creator \in Threads /\ MaxRefs \in Nat \ {0}

VARIABLES
    count,      \* kref->refcount
    refs,       \* refs[t]: references thread t holds
    inTable,    \* the object can still be found by a lookup
    released,   \* the release callback has run
    pc          \* "found": t holds a pointer from the table, no reference

vars == <<count, refs, inTable, released, pc>>

Init ==
    /\ count = 1
    /\ refs = [t \in Threads |-> IF t = Creator THEN 1 ELSE 0]
    /\ inTable = TRUE
    /\ released = FALSE
    /\ pc = [t \in Threads |-> "idle"]

(* A lookup under rcu_read_lock finds the object in the table. *)
Lookup(t) ==
    /\ pc[t] = "idle"
    /\ inTable
    /\ refs[t] < MaxRefs
    /\ pc' = [pc EXCEPT ![t] = "found"]
    /\ UNCHANGED <<count, refs, inTable, released>>

(* Mutant: a plain kref_get on the object found, as before the fix. *)
KrefGetPlain(t) ==
    /\ pc[t] = "found"
    /\ count' = count + 1
    /\ refs' = [refs EXCEPT ![t] = @ + 1]
    /\ pc' = [pc EXCEPT ![t] = "idle"]
    /\ UNCHANGED <<inTable, released>>

(* kref_get_unless_zero: atomic_add_unless(&refcount, 1, 0) (or           *)
(* refcount_inc_not_zero from 4.11 on): take a reference unless the count *)
(* is already zero, in which case the lookup fails.                       *)
KrefGetUnlessZero(t) ==
    /\ pc[t] = "found"
    /\ IF count # 0
       THEN /\ count' = count + 1
            /\ refs' = [refs EXCEPT ![t] = @ + 1]
       ELSE UNCHANGED <<count, refs>>
    /\ pc' = [pc EXCEPT ![t] = "idle"]
    /\ UNCHANGED <<inTable, released>>

(* Mutant: kref_sub decrementing by one, as kref_put does. *)
KrefSubDec(t, n) ==
    /\ refs' = [refs EXCEPT ![t] = @ - n]
    /\ count' = count - 1
    /\ IF count - 1 = 0
       THEN inTable' = FALSE /\ released' = TRUE
       ELSE UNCHANGED <<inTable, released>>

(* vmwgfx_kref_sub: atomic_sub_and_test(count, &refcount), and the        *)
(* release callback when the result is zero.                              *)
KrefSub(t, n) ==
    /\ refs' = [refs EXCEPT ![t] = @ - n]
    /\ count' = count - n
    /\ IF count - n = 0
       THEN inTable' = FALSE /\ released' = TRUE
       ELSE UNCHANGED <<inTable, released>>

(* A thread drops n of the references it holds. *)
Drop(t, n) ==
    /\ pc[t] = "idle"
    /\ n \in 1..refs[t]
    /\ KrefSub(t, n)
    /\ UNCHANGED pc

Next ==
    \E t \in Threads :
       \/ Lookup(t)
       \/ KrefGetUnlessZero(t)
       \/ \E n \in 1..MaxRefs : Drop(t, n)

Spec == Init /\ [][Next]_vars

-----------------------------------------------------------------------------
(* No reference is held on a released object: a lookup that found the     *)
(* object just before the last reference was dropped does not bring it    *)
(* back, because kref_get_unless_zero refuses a zero count.               *)
NoResurrection == \A t \in Threads : refs[t] > 0 => ~released

(* Once nobody holds a reference the object has been released: kref_sub  *)
(* removes exactly the references it is given, so the count reaches zero *)
(* with the last of them.                                                 *)
NoLeak == (\A t \in Threads : refs[t] = 0) => released
=============================================================================
