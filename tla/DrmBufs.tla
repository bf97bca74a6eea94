------------------------------ MODULE DrmBufs ------------------------------
(***************************************************************************)
(* The DMA buffer ioctls of src/drm_bufs.c: drm_order, drm_markbufs and   *)
(* drm_infobufs over dev->dma->bufs[0..DRM_MAX_ORDER] and the counters    *)
(* dev->buf_use / dev->buf_alloc.  drm_addbufs and drm_freebufs are stubs *)
(* that return -EINVAL, so the buffer counts are the driver's and never   *)
(* change.  The legacy ioctls run one at a time, so each call is one step.*)
(*                                                                         *)
(* Widths are scaled: an int has IntBits bits and an unsigned long        *)
(* LongBits > IntBits, so that a negative int request->size passed to     *)
(* drm_order(unsigned long) is sign-extended as on the real build.        *)
(***************************************************************************)
EXTENDS Integers, FiniteSets, Bitwise, TLC

CONSTANTS
    HaveDma,    \* DRIVER_HAVE_DMA is set and dev->dma is allocated
    MinOrder,   \* DRM_MIN_ORDER
    MaxOrder,   \* DRM_MAX_ORDER
    BufCount,   \* BufCount[o] = dma->bufs[o].buf_count, set by the driver
    IntBits,    \* width of int
    LongBits,   \* width of unsigned long
    Sizes,      \* request->size values callers pass
    Marks,      \* request->low_mark / high_mark values callers pass
    MaxUse,     \* bound on dev->buf_use
    MaxCount    \* bound on what an int beyond dma->bufs[] may hold

Orders == 0..MaxOrder
IntRange == -(2^(IntBits - 1))..(2^(IntBits - 1) - 1)

ASSUME /\ HaveDma \in BOOLEAN
       /\ 0 <= MinOrder /\ MinOrder <= MaxOrder /\ MaxOrder < LongBits
       /\ BufCount \in [Orders -> Nat]
       /\ 0 < IntBits /\ IntBits < LongBits
       /\ Sizes \subseteq IntRange /\ Marks \subseteq IntRange

VARIABLES
    lowMark,    \* dma->bufs[o].freelist.low_mark
    highMark,   \* dma->bufs[o].freelist.high_mark
    bufUse,     \* dev->buf_use
    bufAlloc,   \* dev->buf_alloc
    reply,      \* what the last drm_infobufs wrote to request->count
    call        \* request->size of the last drm_markbufs and its order

vars == <<lowMark, highMark, bufUse, bufAlloc, reply, call>>

TypeOK ==
    /\ lowMark \in [Orders -> Int]
    /\ highMark \in [Orders -> Int]
    /\ bufUse \in 0..MaxUse
    /\ bufAlloc = 0
    /\ reply \in IntRange
    /\ call \in [size : IntRange, order : 0..LongBits]

Init ==
    /\ lowMark = [o \in Orders |-> 0]
    /\ highMark = [o \in Orders |-> 0]
    /\ bufUse = 0
    /\ bufAlloc = 0
    /\ reply = 0
    /\ call = [size |-> 0, order |-> 0]

-----------------------------------------------------------------------------
(* An int converted to unsigned long: sign extension, modulo 2^LongBits. *)
ToULong(x) == x % (2^LongBits)

(* for (order = 0, tmp = size >> 1; tmp; tmp >>= 1, order++) ;          *)
RECURSIVE ShiftCount(_)
ShiftCount(tmp) == IF tmp = 0 THEN 0 ELSE 1 + ShiftCount(tmp \div 2)

(* Mutant: drm_order without the final rounding up. *)
DrmOrderNoRound(size) == ShiftCount(size \div 2)

(* drm_order(size): the shift count, plus one when size is not a power   *)
(* of two (size & (size - 1), computed modulo 2^LongBits).               *)
DrmOrder(size) ==
    ShiftCount(size \div 2)
      + (IF size & ((size - 1) % (2^LongBits)) # 0 THEN 1 ELSE 0)

(* dma->bufs[o].buf_count; an index past the array reads other memory,  *)
(* any value.                                                             *)
BufCountAt(o) == IF o \in Orders THEN {BufCount[o]} ELSE 0..MaxCount

(* Mutant: drm_markbufs accepting order DRM_MAX_ORDER + 1. *)
MarkbufsOrderOffByOne(size, low, high) ==
    LET order == DrmOrder(ToULong(size)) IN
    /\ HaveDma
    /\ call' = [size |-> size, order |-> order]
    /\ IF /\ order >= MinOrder /\ order <= MaxOrder + 1
          /\ \E c \in BufCountAt(order) :
                low >= 0 /\ low <= c /\ high >= 0 /\ high <= c
       THEN /\ lowMark' = (order :> low) @@ lowMark
            /\ highMark' = (order :> high) @@ highMark
       ELSE UNCHANGED <<lowMark, highMark>>
    /\ UNCHANGED <<bufUse, bufAlloc, reply>>

(* drm_markbufs: a request whose size's order lies outside               *)
(* [DRM_MIN_ORDER, DRM_MAX_ORDER] or whose marks lie outside             *)
(* [0, buf_count] returns -EINVAL and writes no mark; otherwise both     *)
(* marks of dma->bufs[order] are written.  The write extends the array   *)
(* when the index is out of bounds, so such a write shows in TypeOK.     *)
Markbufs(size, low, high) ==
    LET order == DrmOrder(ToULong(size)) IN
    /\ HaveDma
    /\ call' = [size |-> size, order |-> order]
    /\ IF /\ order >= MinOrder /\ order <= MaxOrder
          /\ \E c \in BufCountAt(order) :
                low >= 0 /\ low <= c /\ high >= 0 /\ high <= c
       THEN /\ lowMark' = (order :> low) @@ lowMark
            /\ highMark' = (order :> high) @@ highMark
       ELSE UNCHANGED <<lowMark, highMark>>
    /\ UNCHANGED <<bufUse, bufAlloc, reply>>

(* The number of orders with buffers, as drm_infobufs' first loop counts. *)
NonEmptyOrders == {o \in Orders : BufCount[o] # 0}

(* drm_infobufs(request->count = rc): under count_lock, -EBUSY once       *)
(* buffers were allocated, else ++buf_use; then the entries are copied   *)
(* when rc leaves room, and request->count is set to the count.  A       *)
(* failing copy_to_user returns -EFAULT after buf_use was raised.        *)
Infobufs(rc) ==
    /\ HaveDma
    /\ bufUse < MaxUse
    /\ IF bufAlloc # 0
       THEN UNCHANGED vars
       ELSE /\ bufUse' = bufUse + 1
            /\ \/ reply' = Cardinality(NonEmptyOrders)
               \/ /\ rc >= Cardinality(NonEmptyOrders)
                  /\ NonEmptyOrders # {}
                  /\ UNCHANGED reply
            /\ UNCHANGED <<lowMark, highMark, bufAlloc, call>>

Next ==
    \/ \E s \in Sizes, l, h \in Marks : Markbufs(s, l, h)
    \/ \E rc \in 0..Cardinality(Orders) : Infobufs(rc)

Spec == Init /\ [][Next]_vars

-----------------------------------------------------------------------------
(* drm_order(size) is "the exponent of the smaller power of two which is  *)
(* greater or equal to given number": the order drm_markbufs computed for *)
(* the size of its last request, a sign-extended int, is the least k     *)
(* with 2^k >= size.                                                      *)
CeilLog2(n) == CHOOSE k \in 0..LongBits : 2^k >= n /\ (k = 0 \/ 2^(k - 1) < n)

DrmOrderIsCeilLog2 == call.order = CeilLog2(ToULong(call.size))

=============================================================================
