------------------------------ MODULE DrmAgpMap ------------------------------
(***************************************************************************)
(* The _DRM_AGP case of drm_addmap_core (src/drm_bufs.c), which           *)
(* drm_addmap_ioctl lets any caller reach, CAP_SYS_ADMIN or not: the       *)
(* alignment check every map goes through, then the AGP base added unless *)
(* the offset is already inside the aperture, then the search of          *)
(* dev->agp->memory for a bound block that holds the map.                 *)
(*                                                                         *)
(* resource_size_t and unsigned long are AddrBits wide and the size       *)
(* argument, an unsigned int, SizeBits wide; every sum wraps at AddrBits  *)
(* as on the real build.  The device (whether it has AGP, and which       *)
(* blocks are bound) is fixed at the start; one request is then checked.  *)
(***************************************************************************)
EXTENDS Integers

CONSTANTS
    AddrBits,   \* width of resource_size_t and unsigned long
    SizeBits,   \* width of unsigned int
    PageSize,   \* PAGE_SIZE
    AgpBase,    \* dev->agp->base
    AperBytes,  \* dev->agp->agp_info.aper_size * 1024 * 1024
    Memories    \* the dev->agp->memory lists a device may have

Addr == 0..(2^AddrBits - 1)
Sizes == 0..(2^SizeBits - 1)
Block == [bound : Addr, pages : Nat]      \* a struct drm_agp_mem

ASSUME /\ SizeBits < AddrBits /\ PageSize > 0
       /\ AgpBase \in Addr /\ AperBytes \in Nat
       /\ Memories \subseteq SUBSET Block

NoResult == "none"

VARIABLES
    hasAgp,     \* drm_core_has_AGP(dev)
    memory,     \* the entries of dev->agp->memory
    off, size,  \* the request
    moff,       \* map->offset after the AGP case
    ret         \* what drm_addmap_core returns: "ok", an errno, or none yet

vars == <<hasAgp, memory, off, size, moff, ret>>

Init ==
    /\ hasAgp \in BOOLEAN /\ memory \in Memories
    /\ off = 0 /\ size = 0 /\ moff = 0
    /\ ret = NoResult

Wrap(a) == a % 2^AddrBits

PageAligned(a) == a % PageSize = 0

(* map->offset is left alone when it lies in [base, base + aperture - 1]. *)
InAperture(a) == AgpBase <= a /\ a <= Wrap(AgpBase + AperBytes - 1)

Rebased(a) == IF InAperture(a) THEN a ELSE Wrap(a + AgpBase)

(* The test of the list_for_each_entry loop, its sums in unsigned long. *)
Fits(a, s, e) ==
    /\ a >= e.bound
    /\ Wrap(a + s) <= Wrap(e.bound + e.pages * PageSize)

(* An empty dev->agp->memory means user space manages AGP: no check. *)
AgpCheck(a, s) ==
    IF memory # {} /\ ~\E e \in memory : Fits(a, s, e) THEN "EPERM" ELSE "ok"

AddmapAgp ==
    /\ ret = NoResult
    /\ \E a \in Addr, s \in Sizes :
          /\ off' = a /\ size' = s
          /\ \/ /\ ~(PageAligned(a) /\ PageAligned(s))
                /\ ret' = "EINVAL" /\ moff' = a
             \/ /\ PageAligned(a) /\ PageAligned(s) /\ ~hasAgp
                /\ ret' = "EINVAL" /\ moff' = a
             \/ /\ PageAligned(a) /\ PageAligned(s) /\ hasAgp
                /\ moff' = Rebased(a)
                /\ ret' = AgpCheck(Rebased(a), s)
    /\ UNCHANGED <<hasAgp, memory>>

Next == AddmapAgp

Spec == Init /\ [][Next]_vars

-----------------------------------------------------------------------------
(* The loop's comment (drm_bufs.c:283-288) says it makes sure the DRM    *)
(* controls the AGP space the map names: a map drm_addmap_core accepts   *)
(* while dev->agp->memory lists bound blocks lies inside one of them.    *)
AgpMapInBoundBlock ==
    ret = "ok" /\ memory # {} =>
        \E e \in memory :
            e.bound <= moff /\ moff + size <= e.bound + e.pages * PageSize
=============================================================================
