------------------------------ MODULE DrmMaps ------------------------------
(***************************************************************************)
(* The DRM map list of src/drm_bufs.c: dev->maplist, the handle hash      *)
(* dev->map_hash and the master's lock pointer, changed by                *)
(* drm_addmap_core (through drm_addmap and drm_addmap_ioctl), drm_rmmap,   *)
(* drm_rmmap_locked and drm_rmmap_ioctl.                                   *)
(*                                                                         *)
(* A list entry and its drm_local_map are allocated and freed together    *)
(* and are one element of Ids (the address kmalloc returns).  The steps   *)
(* run under dev->struct_mutex are single actions; drm_addmap_core         *)
(* searches the list before taking the mutex and sets list->master after  *)
(* dropping it, and those are actions of their own.  Failed calls that    *)
(* free only what they allocated change nothing and are not steps.        *)
(***************************************************************************)
EXTENDS Naturals, Sequences, SequencesExt

CONSTANTS
    Procs,      \* threads calling the map functions
    Ids,        \* addresses of list entries (with their map)
    Res,        \* physical resources of register and frame-buffer maps
    Keys,       \* keys of dev->map_hash (user_token >> PAGE_SHIFT)
    HashKeys,   \* keys drm_ht_just_insert_please can hand out
    KeyOf,      \* KeyOf[r]: the key of resource r's offset
    Reqs,       \* the map requests callers make
    Master,     \* dev->primary->master
    NoId, NoKey, NoMaster,
    MaxMaps     \* bound on the length of dev->maplist

Types == {"REG", "FB", "SHM"}
Flags == {"LOCK", "REMOVABLE", "DRIVER"}
Requests == [type : Types, res : Res, flags : SUBSET Flags]

ASSUME /\ HashKeys \subseteq Keys
       /\ KeyOf \in [Res -> Keys]
       /\ Reqs \subseteq Requests
       /\ {NoId, NoKey, NoMaster} \cap (Ids \cup Keys \cup {Master}) = {}
       /\ MaxMaps \in Nat

VARIABLES
    maplist,    \* dev->maplist, head first
    alloc,      \* list entries currently allocated
    mapOf,      \* mapOf[e]: type, resource and flags of entry e's map
    master,     \* list->master
    token,      \* list->hash.key, so user_token = token << PAGE_SHIFT
    mapHash,    \* keys present in dev->map_hash
    hwLock,     \* dev->primary->master->lock.hw_lock
    pc, req, ref

mapVars == <<maplist, alloc, mapOf, master, token, mapHash, hwLock>>
vars == <<mapVars, pc, req, ref>>

(* The contents of a freed entry, and the arguments of a thread between   *)
(* calls, are never read: they are kept at one value.                     *)
NoReq == CHOOSE q \in Reqs : TRUE

Init ==
    /\ maplist = << >>
    /\ alloc = {}
    /\ mapOf = [e \in Ids |-> NoReq]
    /\ master = [e \in Ids |-> NoMaster]
    /\ token = [e \in Ids |-> NoKey]
    /\ mapHash = {}
    /\ hwLock = NoId
    /\ pc = [p \in Procs |-> "idle"]
    /\ req = [p \in Procs |-> NoReq]
    /\ ref = [p \in Procs |-> NoId]

-----------------------------------------------------------------------------
(* drm_find_matching_map: entry e matches request q when it has q's type  *)
(* and the current master; register and frame-buffer maps match whatever *)
(* their offset, an SHM map matches any SHM map when q's flags are exactly *)
(* _DRM_CONTAINS_LOCK, and otherwise by offset.  A new SHM map's offset is *)
(* its vmalloc address, which no request offset equals.                   *)
Matches(q, e) ==
    /\ mapOf[e].type = q.type
    /\ master[e] = Master
    /\ q.type \in {"REG", "FB"} \/ q.flags = {"LOCK"}

FindMatchingMap(q) ==
    LET i == SelectInSeq(maplist, LAMBDA e : Matches(q, e))
    IN  IF i = 0 THEN NoId ELSE maplist[i]

(* Mutant: drm_map_handle keeping the offset key when it is taken.        *)
MapHandleNoProbe(q) ==
    IF q.type # "SHM" THEN {KeyOf[q.res]} ELSE HashKeys \ mapHash

(* drm_map_handle with hashed_handle = 0 on a 64-bit build: the keys the  *)
(* new entry can get.  A register or frame-buffer offset fits 32 bits and *)
(* keys by its page number when that key is free (drm_ht_insert_item     *)
(* fails with -EINVAL otherwise); an SHM token is a vmalloc address above *)
(* 4 GiB and is hashed.  drm_ht_just_insert_please probes from the hash   *)
(* of the token for a free key and fails when there is none.              *)
MapHandle(q) ==
    IF q.type # "SHM" /\ KeyOf[q.res] \notin mapHash
    THEN {KeyOf[q.res]}
    ELSE HashKeys \ mapHash

-----------------------------------------------------------------------------
(* drm_addmap_core up to mutex_lock: reject a removable non-SHM map, look *)
(* for a matching map, and for a new SHM map refuse a second lock while   *)
(* hw_lock is set (-EBUSY).                                               *)
AddmapCore(p, q) ==
    /\ pc[p] = "idle"
    /\ "REMOVABLE" \in q.flags => q.type = "SHM"
    /\ LET f == FindMatchingMap(q) IN
       \/ /\ f # NoId
          /\ pc' = [pc EXCEPT ![p] = "found"]
          /\ ref' = [ref EXCEPT ![p] = f]
          /\ req' = [req EXCEPT ![p] = q]
       \/ /\ f = NoId
          /\ IF q.type = "SHM" /\ "LOCK" \in q.flags /\ hwLock # NoId
             THEN UNCHANGED <<pc, ref, req>>
             ELSE /\ pc' = [pc EXCEPT ![p] = "insert"]
                  /\ req' = [req EXCEPT ![p] = q]
                  /\ UNCHANGED ref
    /\ UNCHANGED mapVars

(* drm_addmap: the kernel's own call. *)
Addmap(p, q) == AddmapCore(p, q)

(* drm_addmap_ioctl: only CAP_SYS_ADMIN may add maps other than SHM (and  *)
(* AGP, which this device lacks).                                         *)
AddmapIoctl(p, q, capable) ==
    /\ capable \/ q.type = "SHM"
    /\ AddmapCore(p, q)

(* A matching map was found: its size is made the requested one and it is *)
(* returned, read through the pointer taken before any lock.              *)
AddmapFound(p) ==
    /\ pc[p] = "found"
    /\ pc' = [pc EXCEPT ![p] = "idle"]
    /\ ref' = [ref EXCEPT ![p] = NoId]
    /\ req' = [req EXCEPT ![p] = NoReq]
    /\ UNCHANGED mapVars

(* Under struct_mutex: list_add of the new entry (zeroed, so no master), *)
(* then drm_map_handle.  If that fails the map and the entry are freed    *)
(* but the entry stays on dev->maplist.                                   *)
AddmapInsert(p) ==
    /\ pc[p] = "insert"
    /\ Len(maplist) < MaxMaps
    /\ \E e \in Ids \ alloc :
         /\ maplist' = <<e>> \o maplist
         /\ master' = [master EXCEPT ![e] = NoMaster]
         /\ IF MapHandle(req[p]) = {}
            THEN /\ pc' = [pc EXCEPT ![p] = "idle"]
                 /\ req' = [req EXCEPT ![p] = NoReq]
                 /\ UNCHANGED <<alloc, mapOf, token, mapHash, ref>>
            ELSE \E k \in MapHandle(req[p]) :
                 /\ mapOf' = [mapOf EXCEPT ![e] = req[p]]
                 /\ token' = [token EXCEPT ![e] = k]
                 /\ mapHash' = mapHash \cup {k}
                 /\ alloc' = alloc \cup {e}
                 /\ pc' = [pc EXCEPT ![p] = "publish"]
                 /\ ref' = [ref EXCEPT ![p] = e]
                 /\ UNCHANGED req
    /\ UNCHANGED hwLock

(* After mutex_unlock: list->master is set unless the map is _DRM_DRIVER. *)
AddmapPublish(p) ==
    /\ pc[p] = "publish"
    /\ master' = [master EXCEPT ![ref[p]] =
                    IF "DRIVER" \in req[p].flags THEN NoMaster ELSE Master]
    /\ pc' = [pc EXCEPT ![p] = "idle"]
    /\ ref' = [ref EXCEPT ![p] = NoId]
    /\ req' = [req EXCEPT ![p] = NoReq]
    /\ UNCHANGED <<maplist, alloc, mapOf, token, mapHash, hwLock>>

-----------------------------------------------------------------------------
(* drm_rmmap_locked(map) with struct_mutex held: unlink the first entry   *)
(* of the map, drop its key, free it; removing an SHM map of a master     *)
(* clears that master's lock pointer.  kfree leaves nothing to read.     *)
RmmapLocked(e) ==
    /\ e \in ToSet(maplist)
    /\ maplist' = RemoveFirst(maplist, e)
    /\ mapHash' = mapHash \ {token[e]}
    /\ alloc' = alloc \ {e}
    /\ hwLock' = IF mapOf[e].type = "SHM" /\ master[e] # NoMaster
                 THEN NoId ELSE hwLock
    /\ mapOf' = [mapOf EXCEPT ![e] = NoReq]
    /\ master' = [master EXCEPT ![e] = NoMaster]
    /\ token' = [token EXCEPT ![e] = NoKey]

(* drm_rmmap: a driver removes a map it holds, under struct_mutex. *)
Rmmap(e) ==
    /\ e \in alloc
    /\ RmmapLocked(e)
    /\ UNCHANGED <<pc, req, ref>>

(* drm_rmmap_ioctl(handle): under struct_mutex, the first removable map  *)
(* with that user_token; register and frame-buffer maps stay.             *)
RmmapIoctl(k) ==
    LET i == SelectInSeq(maplist, LAMBDA e :
                 token[e] = k /\ "REMOVABLE" \in mapOf[e].flags)
    IN  /\ i # 0
        /\ mapOf[maplist[i]].type \notin {"REG", "FB"}
        /\ RmmapLocked(maplist[i])
        /\ UNCHANGED <<pc, req, ref>>

-----------------------------------------------------------------------------
Next ==
    \/ \E p \in Procs, q \in Reqs :
          \/ Addmap(p, q)
          \/ \E capable \in BOOLEAN : AddmapIoctl(p, q, capable)
    \/ \E p \in Procs : AddmapFound(p) \/ AddmapInsert(p) \/ AddmapPublish(p)
    \/ \E e \in Ids : Rmmap(e)
    \/ \E k \in Keys : RmmapIoctl(k)

Spec == Init /\ [][Next]_vars

-----------------------------------------------------------------------------
(* drm_map_handle keeps dev->map_hash a faithful index of dev->maplist:   *)
(* its keys are exactly the tokens of the listed maps, and no two listed *)
(* maps share a token, so drm_rmmap_ioctl's lookup by handle finds the    *)
(* map the caller was given, even when an offset key collides with a      *)
(* hashed one.                                                            *)
HashMatchesList ==
    /\ mapHash = {token[maplist[i]] : i \in DOMAIN maplist}
    /\ \A i, j \in DOMAIN maplist :
          i # j => token[maplist[i]] # token[maplist[j]]

(* Every entry on dev->maplist is allocated: the list never points at an *)
(* entry drm_addmap_core or drm_rmmap_locked has freed.                  *)
ListEntriesAllocated == ToSet(maplist) \subseteq alloc

(* "Prevent a 2nd X Server from creating a 2nd lock": dev->maplist holds *)
(* at most one SHM map that contains the hardware lock.                   *)
SingleLockMap ==
    \A i, j \in DOMAIN maplist :
       (/\ mapOf[maplist[i]].type = "SHM" /\ "LOCK" \in mapOf[maplist[i]].flags
        /\ mapOf[maplist[j]].type = "SHM" /\ "LOCK" \in mapOf[maplist[j]].flags)
          => i = j

(* "Each driver will have only one resource of each type": a master has  *)
(* at most one register map and one frame-buffer map; a second           *)
(* drm_addmap_core of the same type returns the existing one.            *)
UniqueResource ==
    \A i, j \in DOMAIN maplist :
       LET a == maplist[i]  b == maplist[j] IN
       (/\ mapOf[a].type \in {"REG", "FB"} /\ mapOf[a].type = mapOf[b].type
        /\ master[a] = Master /\ master[b] = Master) => i = j

(* The entry drm_find_matching_map returned, before struct_mutex was     *)
(* taken, is still allocated when drm_addmap_core writes                  *)
(* list->map->size and hands it to the caller.                            *)
FoundEntryLive == \A p \in Procs : pc[p] = "found" => ref[p] \in alloc
=============================================================================
