------------------------------ MODULE MCCompat ------------------------------
(***************************************************************************)
(* The compatibility helpers and the DMA buffer ioctls checked together:  *)
(* each behaviour exercises one of them, chosen at the start.  They share *)
(* no state, so the models are composed side by side, each instance's     *)
(* variables renamed apart.                                                *)
(*  - "kref":  KRef, three threads, the first the object's creator;       *)
(*  - "lcp":   ListCut on every list of up to four entries;               *)
(*  - "calls": CompatCalls, timespec_sub on boundary readings and the      *)
(*             shrinker adapter on a pool of up to three pages;            *)
(*  - "ids":   IdAlloc, two idr_alloc callers and one ida_simple_get      *)
(*             caller for ids 1..2 with end 2, so that a second caller is *)
(*             refused with -ENOSPC;                                        *)
(*  - "hlist": HlistRcu, one writer inserting two nodes into a list of two *)
(*             while two RCU readers walk it;                               *)
(*  - "div":   CompatDiv, DIV_ROUND_CLOSEST_ULL on every dividend of an   *)
(*             8-bit unsigned long long and every 4-bit divisor;          *)
(*  - "bufs":  DrmBufs, drm_markbufs and drm_infobufs on a device with   *)
(*             DMA buffers at orders 2 and 4 of 0..4, a 6-bit int, an     *)
(*             8-bit unsigned long, every boundary size and mark.         *)
(***************************************************************************)
EXTENDS Integers, TLC

CONSTANTS t1, t2, t3, n1, n2, n3, n4, HeadNode, ListNode, r1, r2, NULL, Garbage

VARIABLES
    helper,
    count, refs, inTable, released, kpc,
    nx, pv, entry, before, lpc,
    ts1, ts2, diff, objects, reply, replied,
    used, spare, ipc, ret, id, idr,
    hnx, hpprev, wpc, wn, wprev, rpc, cur, seen, must,
    dx, dd, dq,
    lowMark, highMark, bufUse, bufAlloc, breply, bcall

kvars == <<count, refs, inTable, released, kpc>>
lvars == <<nx, pv, entry, before, lpc>>
cvars == <<ts1, ts2, diff, objects, reply, replied>>
ivars == <<used, spare, ipc, ret, id, idr>>
hvars == <<hnx, hpprev, wpc, wn, wprev, rpc, cur, seen, must>>
dvars == <<dx, dd, dq>>
bvars == <<lowMark, highMark, bufUse, bufAlloc, breply, bcall>>
vars == <<helper, kvars, lvars, cvars, ivars, hvars, dvars, bvars>>

K == INSTANCE KRef WITH Threads <- {t1, t2, t3}, Creator <- t1, MaxRefs <- 3,
                        pc <- kpc

L == INSTANCE ListCut WITH Elems <- {n1, n2, n3, n4}, pc <- lpc

C == INSTANCE CompatCalls WITH NsecPerSec <- 1000000000, Secs <- {0, 1},
                               Nsecs <- {0, 1, 999999999}, IntBits <- 16,
                               MaxObjects <- 3, MaxScan <- 2, t1 <- ts1, t2 <- ts2

I == INSTANCE IdAlloc WITH Threads <- {t1, t2, t3},
                           ApiOf <- (t1 :> "idr" @@ t2 :> "idr" @@ t3 :> "ida"),
                           MaxId <- 2, Start <- 1, End <- 2, pc <- ipc

H == INSTANCE HlistRcu WITH InitList <- <<n1, n2>>, Spare <- {n3, n4},
                            Readers <- {r1, r2}, nx <- hnx, pprev <- hpprev

D == INSTANCE CompatDiv WITH UllBits <- 8, x <- dx, d <- dd, q <- dq

(* Buffers at orders 2 and 4.  Sizes at every boundary of drm_order and  *)
(* of the valid orders: the most negative int and -1 (sign-extended to    *)
(* order 8), 0 and 1 (order 0), powers of two and their neighbours, and   *)
(* 17..31 (order 5, one past DRM_MAX_ORDER).  Marks on both sides of the  *)
(* bounds.                                                                *)
B == INSTANCE DrmBufs WITH HaveDma <- TRUE, MinOrder <- 2, MaxOrder <- 4,
        BufCount <- [o \in 0..4 |-> IF o = 2 THEN 2 ELSE IF o = 4 THEN 1 ELSE 0],
        IntBits <- 6, LongBits <- 8,
        Sizes <- {-32, -1, 0, 1, 3, 4, 5, 8, 9, 16, 17, 31}, Marks <- {-1, 0, 1, 2},
        MaxUse <- 3, MaxCount <- 3, reply <- breply, call <- bcall

Helpers == {"kref", "lcp", "calls", "ids", "hlist", "div", "bufs"}

(* The helpers not chosen keep one fixed initial state of their own. *)
Init ==
    /\ helper \in Helpers
    /\ K!Init
    /\ IF helper = "lcp" THEN L!Init
       ELSE L!Init /\ before = << >> /\ entry = HeadNode
    /\ IF helper = "calls" THEN C!Init
       ELSE C!Init /\ ts1 = [sec |-> 0, nsec |-> 0] /\ ts2 = ts1 /\ objects = 0
    /\ I!Init
    /\ H!Init
    /\ D!Init
    /\ B!Init

Next ==
    \/ helper = "bufs" /\ B!Next /\ UNCHANGED <<helper, kvars, lvars, cvars, ivars, hvars, dvars>>
    \/ helper = "div" /\ D!Next /\ UNCHANGED <<helper, kvars, lvars, cvars, ivars, hvars, bvars>>
    \/ helper = "kref" /\ K!Next /\ UNCHANGED <<helper, lvars, cvars, ivars, hvars, dvars, bvars>>
    \/ helper = "lcp" /\ L!Next /\ UNCHANGED <<helper, kvars, cvars, ivars, hvars, dvars, bvars>>
    \/ helper = "calls" /\ C!Next /\ UNCHANGED <<helper, kvars, lvars, ivars, hvars, dvars, bvars>>
    \/ helper = "ids" /\ I!Next /\ UNCHANGED <<helper, kvars, lvars, cvars, hvars, dvars, bvars>>
    \/ helper = "hlist" /\ H!Next /\ UNCHANGED <<helper, kvars, lvars, cvars, ivars, dvars, bvars>>

Spec == Init /\ [][Next]_vars

(* The properties of the seven modules, stated there. *)
NoResurrection == K!NoResurrection
NoLeak == K!NoLeak
CutMatchesContract == L!CutMatchesContract
LinksConsistent == L!LinksConsistent
TimespecSubExact == C!TimespecSubExact
NoLostId == I!NoLostId
ReaderNeverGarbage == H!ReaderNeverGarbage
ReaderSeesAll == H!ReaderSeesAll
PprevConsistent == H!PprevConsistent
DivRoundClosestNearest == D!DivRoundClosestNearest
BufsTypeOK == B!TypeOK
DrmOrderIsCeilLog2 == B!DrmOrderIsCeilLog2
=============================================================================
