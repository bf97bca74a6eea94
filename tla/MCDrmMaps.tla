----------------------------- MODULE MCDrmMaps -----------------------------
(* Instances of DrmMaps for TLC: two threads, three entry addresses, one   *)
(* resource r1 whose offset key k1 is also a hashed key, so that a         *)
(* register or frame-buffer key can collide with a hashed SHM key, and     *)
(* the frame buffer and the registers (both at r1) with each other.        *)
EXTENDS DrmMaps, TLC

CONSTANTS p1, p2, e1, e2, e3, r1, k1, k2, k3

MCProcs1 == {p1}
MCProcs2 == {p1, p2}
MCIds == {e1, e2, e3}
MCRes == {r1}
MCKeys == {k1, k2, k3}
MCHashKeys == {k1, k2, k3}
MCHashKeysOne == {k2}
MCKeyOf == r1 :> k1

Map(t, r, f) == [type |-> t, res |-> r, flags |-> f]

REGr1 == Map("REG", r1, {})
FBr1 == Map("FB", r1, {})
SHMLock == Map("SHM", r1, {"LOCK"})
SHMLockDriver == Map("SHM", r1, {"LOCK", "DRIVER"})
SHMRemovable == Map("SHM", r1, {"REMOVABLE"})

(* Every kind of request the map list distinguishes. *)
MCReqsAll == {REGr1, FBr1, SHMLock, SHMLockDriver, SHMRemovable}
(* The X server's lock map, once added by a driver and once by the server. *)
MCReqsLock == {SHMLock, SHMLockDriver}
(* Removable SHM maps, which take hashed keys only. *)
MCReqsShm == {SHMRemovable}
(* One register map, added twice. *)
MCReqsReg == {REGr1}

MCSymm == Permutations(MCProcs2) \cup Permutations(MCIds)
=============================================================================
