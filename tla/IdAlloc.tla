------------------------------ MODULE IdAlloc ------------------------------
(***************************************************************************)
(* The id allocators of src/drm_compat.h for kernels without them:        *)
(*  - the idr_preload / idr_alloc / idr_preload_end macros (< 3.9), a      *)
(*    do { ... } while (__ret == -EAGAIN) loop around the caller's locked *)
(*    idr_alloc, with idr_pre_get filling the idr's spare layers from the *)
(*    second iteration on;                                                 *)
(*  - ida_simple_get (< 3.1), the same loop around ida_get_new_above.     *)
(* The idr and the ida are two allocators; each thread uses one of them.  *)
(* idr_alloc runs under the caller's lock, so it is one step.             *)
(* ida_simple_get takes no lock, and ida_get_new_above is not safe        *)
(* against itself: its search for a free id and its marking of that id    *)
(* are two steps, so a concurrent call can find the same free id.         *)
(* Whether a new id needs a fresh layer, and whether a pre_get finds      *)
(* memory, are the allocator's and the page allocator's choice.           *)
(***************************************************************************)
EXTENDS Integers, FiniteSets

CONSTANTS
    Threads,
    ApiOf,      \* ApiOf[t] \in {"idr", "ida"}: the allocator t calls
    MaxId,      \* the largest id the allocator hands out
    Start,      \* start argument
    End         \* end argument, 0 for no limit

Apis == {"idr", "ida"}
EAGAIN == -11
ENOMEM == -12
ENOSPC == -28

ASSUME ApiOf \in [Threads -> Apis] /\ 0 <= Start /\ Start <= MaxId /\ End \in Nat

VARIABLES
    used,       \* used[a]: the ids allocator a has handed out
    spare,      \* spare[a]: a preallocated layer is on a's free list
    pc,
    ret,        \* __ret / ret
    id,         \* __id / id
    idr         \* __idr: NULL in the first loop iteration

vars == <<used, spare, pc, ret, id, idr>>

Ids == 0..MaxId
NoId == -1
PCs == {"idle", "preload", "alloc", "end", "preget", "search", "mark", "hold"}

TypeOK ==
    /\ used \in [Apis -> SUBSET Ids]
    /\ spare \in [Apis -> BOOLEAN]
    /\ pc \in [Threads -> PCs]
    /\ ret \in [Threads -> {0, EAGAIN, ENOMEM, ENOSPC}]
    /\ id \in [Threads -> Ids \cup {NoId}]
    /\ idr \in [Threads -> BOOLEAN]

Init ==
    /\ used = [a \in Apis |-> {}]
    /\ spare = [a \in Apis |-> FALSE]
    /\ pc = [t \in Threads |-> "idle"]
    /\ ret = [t \in Threads |-> 0]
    /\ id = [t \in Threads |-> NoId]
    /\ idr = [t \in Threads |-> FALSE]

(* The lowest id >= start not in use, as idr/ida_get_new_above search. *)
FreeAbove(a) == {i \in Start..MaxId : i \notin used[a]}
Lowest(S) == CHOOSE i \in S : \A j \in S : i <= j

(* A call begins: idr_preload's block, or ida_simple_get's loop. *)
Begin(t) ==
    /\ pc[t] = "idle"
    /\ pc' = [pc EXCEPT ![t] = IF ApiOf[t] = "idr" THEN "preload" ELSE "preget"]
    /\ idr' = [idr EXCEPT ![t] = FALSE]
    /\ UNCHANGED <<used, spare, ret, id>>

(* idr_preload, loop top: __ret = 0, then idr_pre_get once __idr is set; *)
(* a pre_get that finds no memory sets __ret = -ENOMEM.                  *)
IdrPreload(t) ==
    /\ pc[t] = "preload"
    /\ pc' = [pc EXCEPT ![t] = "alloc"]
    /\ IF idr[t]
       THEN \E ok \in BOOLEAN :
               /\ spare' = [spare EXCEPT !["idr"] = @ \/ ok]
               /\ ret' = [ret EXCEPT ![t] = IF ok THEN 0 ELSE ENOMEM]
       ELSE ret' = [ret EXCEPT ![t] = 0] /\ UNCHANGED spare
    /\ UNCHANGED <<used, id, idr>>

(* The outcomes of idr_get_new_above / the search of ida_get_new_above   *)
(* on allocator a: no room (-ENOSPC), a new layer needed and none spare  *)
(* (-EAGAIN), or the lowest free id, using up the spare layer if a layer *)
(* was needed.                                                            *)
GetNewAbove(a) ==
    IF FreeAbove(a) = {}
    THEN {[ret |-> ENOSPC, id |-> NoId, spare |-> spare[a]]}
    ELSE {[ret |-> IF need /\ ~spare[a] THEN EAGAIN ELSE 0,
           id |-> IF need /\ ~spare[a] THEN NoId ELSE Lowest(FreeAbove(a)),
           spare |-> spare[a] /\ ~need] : need \in BOOLEAN}

(* Mutant: idr_alloc returning -ENOSPC without idr_remove. *)
IdrAllocNoRemove(t) ==
    /\ pc[t] = "alloc"
    /\ pc' = [pc EXCEPT ![t] = "end"]
    /\ idr' = [idr EXCEPT ![t] = TRUE]
    /\ IF ret[t] # 0
       THEN UNCHANGED <<used, spare, ret, id>>
       ELSE \E r \in GetNewAbove("idr") :
               LET over == r.ret = 0 /\ End # 0 /\ r.id >= End IN
               /\ ret' = [ret EXCEPT ![t] = IF over THEN ENOSPC ELSE r.ret]
               /\ id' = [id EXCEPT ![t] = r.id]
               /\ spare' = [spare EXCEPT !["idr"] = r.spare]
               /\ used' = [used EXCEPT !["idr"] =
                             IF r.ret = 0 THEN @ \cup {r.id} ELSE @]

(* idr_alloc, under the caller's lock: __idr = __idp; the get unless     *)
(* __ret is already an error; an id at or past a nonzero __end is        *)
(* removed again and __ret = -ENOSPC.                                    *)
IdrAlloc(t) ==
    /\ pc[t] = "alloc"
    /\ pc' = [pc EXCEPT ![t] = "end"]
    /\ idr' = [idr EXCEPT ![t] = TRUE]
    /\ IF ret[t] # 0
       THEN UNCHANGED <<used, spare, ret, id>>
       ELSE \E r \in GetNewAbove("idr") :
               LET over == r.ret = 0 /\ End # 0 /\ r.id >= End IN
               /\ ret' = [ret EXCEPT ![t] = IF over THEN ENOSPC ELSE r.ret]
               /\ id' = [id EXCEPT ![t] = r.id]
               /\ spare' = [spare EXCEPT !["idr"] = r.spare]
               /\ used' = [used EXCEPT !["idr"] =
                             IF r.ret = 0 /\ ~over THEN @ \cup {r.id} ELSE @]

(* idr_preload_end: loop while __ret == -EAGAIN; otherwise the caller    *)
(* keeps the id, or returns the error.                                   *)
IdrPreloadEnd(t) ==
    /\ pc[t] = "end"
    /\ CASE ret[t] = EAGAIN -> pc' = [pc EXCEPT ![t] = "preload"] /\ UNCHANGED <<ret, id>>
         [] ret[t] = 0 -> pc' = [pc EXCEPT ![t] = "hold"] /\ UNCHANGED <<ret, id>>
         [] OTHER -> /\ pc' = [pc EXCEPT ![t] = "idle"]
                     /\ ret' = [ret EXCEPT ![t] = 0]
                     /\ id' = [id EXCEPT ![t] = NoId]
    /\ UNCHANGED <<used, spare, idr>>

(* ida_simple_get: ida_pre_get, returning -ENOMEM when it fails. *)
IdaPreGet(t) ==
    /\ pc[t] = "preget"
    /\ \/ /\ spare' = [spare EXCEPT !["ida"] = TRUE]
          /\ pc' = [pc EXCEPT ![t] = "search"]
       \/ /\ pc' = [pc EXCEPT ![t] = "idle"]
          /\ UNCHANGED spare
    /\ UNCHANGED <<used, ret, id, idr>>

(* ida_get_new_above, its search: -ENOSPC returns, -EAGAIN loops back to *)
(* ida_pre_get, a free id goes on to be marked.                           *)
IdaSearch(t) ==
    /\ pc[t] = "search"
    /\ \E r \in GetNewAbove("ida") :
          /\ pc' = [pc EXCEPT ![t] = CASE r.ret = 0 -> "mark"
                                       [] r.ret = EAGAIN -> "preget"
                                       [] OTHER -> "idle"]
          /\ id' = [id EXCEPT ![t] = r.id]
          /\ spare' = [spare EXCEPT !["ida"] = r.spare]
    /\ UNCHANGED <<used, ret, idr>>

(* ida_get_new_above marks the id it found; an id at or past a nonzero   *)
(* end is ida_remove'd and -ENOSPC returned.                              *)
IdaMark(t) ==
    /\ pc[t] = "mark"
    /\ IF End # 0 /\ id[t] >= End
       THEN /\ used' = [used EXCEPT !["ida"] = @ \ {id[t]}]
            /\ pc' = [pc EXCEPT ![t] = "idle"]
            /\ id' = [id EXCEPT ![t] = NoId]
       ELSE /\ used' = [used EXCEPT !["ida"] = @ \cup {id[t]}]
            /\ pc' = [pc EXCEPT ![t] = "hold"]
            /\ UNCHANGED id
    /\ UNCHANGED <<spare, ret, idr>>

(* The holder frees its id: idr_remove / ida_simple_remove. *)
Release(t) ==
    /\ pc[t] = "hold"
    /\ used' = [used EXCEPT ![ApiOf[t]] = @ \ {id[t]}]
    /\ pc' = [pc EXCEPT ![t] = "idle"]
    /\ id' = [id EXCEPT ![t] = NoId]
    /\ UNCHANGED <<spare, ret, idr>>

Next ==
    \E t \in Threads :
       \/ Begin(t)
       \/ IdrPreload(t) \/ IdrAlloc(t) \/ IdrPreloadEnd(t)
       \/ IdaPreGet(t) \/ IdaSearch(t) \/ IdaMark(t)
       \/ Release(t)

Spec == Init /\ [][Next]_vars

-----------------------------------------------------------------------------
(* t owns an id: idr_alloc returned it, or ida_get_new_above marked it. *)
Holding(t) == pc[t] = "hold" \/ (pc[t] = "end" /\ ret[t] = 0)

(* The allocator's set of used ids is exactly the ids its callers own:   *)
(* an id refused with -ENOSPC is given back, and an owned id is never    *)
(* free for another caller.                                               *)
NoLostId ==
    \A a \in Apis :
       used[a] = {id[t] : t \in {u \in Threads : ApiOf[u] = a /\ Holding(u)}}

(* No two callers own the same id of one allocator at the same time.    *)
DistinctIds ==
    \A t, u \in Threads :
       t # u /\ ApiOf[t] = ApiOf[u] /\ Holding(t) /\ Holding(u) => id[t] # id[u]
=============================================================================
