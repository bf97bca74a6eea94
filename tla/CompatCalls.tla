---------------------------- MODULE CompatCalls ----------------------------
(***************************************************************************)
(* Two helpers of src/vmwgfx_compat.h with arithmetic of their own:       *)
(*  - __vmw_timespec_sub, the timespec_sub of old kernels, on timespecs   *)
(*    read from the raw monotonic clock (so normalised: 0 <= tv_nsec <    *)
(*    NSEC_PER_SEC);                                                       *)
(*  - __ttm_compat_shrink, which adapts TTM's count_objects/scan_objects  *)
(*    shrinker to the single shrink() callback of kernels before 3.12.     *)
(*    The pool it counts and scans belongs to TTM: scan_objects frees up   *)
(*    to nr_to_scan pages, or returns SHRINK_STOP when it cannot take the  *)
(*    pool lock; pages come back to the pool between calls.                *)
(***************************************************************************)
EXTENDS Integers

CONSTANTS
    NsecPerSec, \* 1000000000L
    Secs,       \* tv_sec values of the two clock readings
    Nsecs,      \* tv_nsec values of the two clock readings
    IntBits,    \* width of int, the shrink() return type
    MaxObjects, \* bound on the pages in the pool
    MaxScan     \* bound on nr_to_scan

ASSUME /\ NsecPerSec \in Nat \ {0}
       /\ Nsecs \subseteq 0..(NsecPerSec - 1)
       /\ IntBits \in Nat \ {0} /\ MaxObjects < 2^(IntBits - 1)

SHRINK_STOP == -2   \* (~0UL), a value count and scan never otherwise return

Timespecs == [sec : Secs, nsec : Nsecs]

VARIABLES
    t1, t2,     \* the arguments of timespec_sub
    diff,       \* its result, once called
    objects,    \* the pages in TTM's pool
    reply,      \* what the last shrink() returned
    replied     \* no page came back since that reply

tsVars == <<t1, t2, diff>>
shrinkVars == <<objects, reply, replied>>
vars == <<tsVars, shrinkVars>>

NoTs == [sec |-> 0, nsec |-> -1]

Init ==
    /\ t1 \in Timespecs
    /\ t2 \in Timespecs
    /\ diff = NoTs
    /\ objects \in 0..MaxObjects
    /\ reply = 0
    /\ replied = FALSE

-----------------------------------------------------------------------------
(* Mutant: borrowing a second also when the nanoseconds are equal. *)
TimespecSubGe(a, b) ==
    IF b.nsec >= a.nsec
    THEN [sec |-> a.sec - b.sec - 1, nsec |-> a.nsec + (NsecPerSec - b.nsec)]
    ELSE [sec |-> a.sec - b.sec, nsec |-> a.nsec - b.nsec]

(* __vmw_timespec_sub: seconds subtracted, a second borrowed when t2's    *)
(* nanoseconds exceed t1's.                                                *)
TimespecSub(a, b) ==
    IF b.nsec > a.nsec
    THEN [sec |-> a.sec - b.sec - 1, nsec |-> a.nsec + (NsecPerSec - b.nsec)]
    ELSE [sec |-> a.sec - b.sec, nsec |-> a.nsec - b.nsec]

CallTimespecSub ==
    /\ diff = NoTs
    /\ diff' = TimespecSub(t1, t2)
    /\ UNCHANGED <<t1, t2, shrinkVars>>

(* The (int) cast of an unsigned long: the low IntBits bits, signed. *)
ToInt(x) ==
    LET m == x % 2^IntBits
    IN  IF m >= 2^(IntBits - 1) THEN m - 2^IntBits ELSE m

(* What scan_objects may do with nr_to_scan pages: stop, or free them.   *)
ScanResults(nr) == {SHRINK_STOP} \cup {IF nr < objects THEN nr ELSE objects}

(* __ttm_compat_shrink(nr_to_scan): scan_objects when nr_to_scan is not *)
(* zero, -1 when it returns SHRINK_STOP, otherwise (int) count_objects.  *)
CompatShrink(nr) ==
    /\ IF nr # 0
       THEN \E freed \in ScanResults(nr) :
               IF freed = SHRINK_STOP
               THEN reply' = -1 /\ UNCHANGED objects
               ELSE objects' = objects - freed /\ reply' = ToInt(objects')
       ELSE reply' = ToInt(objects) /\ UNCHANGED objects
    /\ replied' = TRUE
    /\ UNCHANGED tsVars

(* TTM puts a freed page back into its pool. *)
PoolPut ==
    /\ objects < MaxObjects
    /\ objects' = objects + 1
    /\ replied' = FALSE
    /\ UNCHANGED <<reply, tsVars>>

Next ==
    \/ CallTimespecSub
    \/ \E nr \in 0..MaxScan : CompatShrink(nr)
    \/ PoolPut

Spec == Init /\ [][Next]_vars

-----------------------------------------------------------------------------
(* timespec_sub of two normalised clock readings is their exact           *)
(* difference, itself normalised: 0 <= tv_nsec < NSEC_PER_SEC, including *)
(* equal nanoseconds and a negative difference.                           *)
TimespecSubExact ==
    diff # NoTs =>
       /\ diff.nsec \in 0..(NsecPerSec - 1)
       /\ diff.sec * NsecPerSec + diff.nsec
            = (t1.sec - t2.sec) * NsecPerSec + (t1.nsec - t2.nsec)

=============================================================================
