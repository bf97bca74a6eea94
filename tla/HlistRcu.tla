------------------------------ MODULE HlistRcu ------------------------------
(***************************************************************************)
(* hlist_add_behind_rcu of src/drm_compat.h, for kernels that lack it:    *)
(* a writer, serialised against other writers by the caller's lock,       *)
(* inserts node n after node prev of an hlist while readers walk the list  *)
(* under rcu_read_lock only, as hlist_for_each_entry_rcu does.            *)
(*                                                                         *)
(* The readers take no lock, so they can run between any two stores of    *)
(* the writer, and each store is a step of its own, applied in the code's  *)
(* order.  rcu_assign_pointer's release keeps the stores before it ahead   *)
(* of the publication, and a reader's rcu_dereference sees the stores the  *)
(* publication covers, so sequential interleaving of the stores is what a  *)
(* reader can observe.  Readers never read pprev, but hlist_del does.      *)
(* The head's first pointer is nx[HeadNode], and pprev[x] = y stands for  *)
(* x->pprev == &y->next (&head->first when y is HeadNode).                 *)
(***************************************************************************)
EXTENDS Naturals, Sequences, SequencesExt

CONSTANTS
    InitList,   \* the nodes on the hlist at the start, first to last
    Spare,      \* nodes the writer may insert, their pointers never written
    Readers,    \* RCU readers
    HeadNode,   \* the struct hlist_head
    NULL,
    Garbage     \* the value of a pointer field never written

Nodes == ToSet(InitList) \cup Spare

ASSUME /\ IsInjective(InitList) /\ ToSet(InitList) \cap Spare = {}
       /\ {HeadNode, NULL, Garbage} \cap Nodes = {}

VARIABLES
    nx,         \* nx[x] = x->next, nx[HeadNode] = head->first
    pprev,      \* pprev[x] = y: x->pprev == &y->next
    wpc,        \* the writer: 0 when idle, else the number of its next store
    wn,         \* n, the node being inserted
    wprev,      \* prev, the node it goes behind
    rpc,        \* a reader: "idle" or "walk"
    cur,        \* the reader's pos
    seen,       \* the nodes the reader has visited
    must        \* the nodes on the list when the reader started

wVars == <<wpc, wn, wprev>>
rVars == <<rpc, cur, seen, must>>
vars == <<nx, pprev, wVars, rVars>>

(* The nodes reached from the head by next pointers. *)
RECURSIVE Chain(_, _)
Chain(x, fuel) ==
    IF x \notin Nodes \/ fuel = 0 THEN << >> ELSE <<x>> \o Chain(nx[x], fuel - 1)

OnList == ToSet(Chain(nx[HeadNode], Cardinality(Nodes)))

(* Pointers of the list InitList.  A spare node's next pointer has never *)
(* been written: NULL when its memory came zeroed, garbage otherwise.      *)
Init ==
    LET n == Len(InitList)
        At(i) == IF i = 0 THEN HeadNode ELSE IF i > n THEN NULL ELSE InitList[i]
        Pos(x) == CHOOSE i \in 1..n : InitList[i] = x
    IN  /\ \E junk \in [Spare -> {NULL, Garbage}] :
              nx = [x \in Nodes \cup {HeadNode} |->
                      IF x = HeadNode THEN At(1)
                      ELSE IF x \in Spare THEN junk[x] ELSE At(Pos(x) + 1)]
        /\ pprev = [x \in Nodes |->
                      IF x \in Spare THEN Garbage ELSE At(Pos(x) - 1)]
        /\ wpc = 0 /\ wn = NULL /\ wprev = NULL
        /\ rpc = [r \in Readers |-> "idle"]
        /\ cur = [r \in Readers |-> NULL]
        /\ seen = [r \in Readers |-> {}]
        /\ must = [r \in Readers |-> {}]

-----------------------------------------------------------------------------
(* Mutant: rcu_assign_pointer(hlist_next_rcu(prev), n) moved first. *)
StoresPublishFirst == <<"publish", "next", "pprev", "fixup">>

(* The stores of hlist_add_behind_rcu(n, prev) in the code's order. *)
Stores == <<"next", "pprev", "publish", "fixup">>

(* Mutant: the fix-up of n->next->pprev left out. *)
ApplyNoFixup(s, n, prev) ==
    CASE s = "next"    -> [nx |-> [nx EXCEPT ![n] = nx[prev]], pp |-> pprev]
      [] s = "pprev"   -> [nx |-> nx, pp |-> [pprev EXCEPT ![n] = prev]]
      [] s = "publish" -> [nx |-> [nx EXCEPT ![prev] = n], pp |-> pprev]
      [] s = "fixup"   -> [nx |-> nx, pp |-> pprev]

(* One store, reading the pointers as the stores before it left them:    *)
(*   n->next = prev->next;                                                 *)
(*   n->pprev = &prev->next;                                               *)
(*   rcu_assign_pointer(hlist_next_rcu(prev), n);                          *)
(*   if (n->next) n->next->pprev  = &n->next;                              *)
Apply(s, n, prev) ==
    CASE s = "next"    -> [nx |-> [nx EXCEPT ![n] = nx[prev]], pp |-> pprev]
      [] s = "pprev"   -> [nx |-> nx, pp |-> [pprev EXCEPT ![n] = prev]]
      [] s = "publish" -> [nx |-> [nx EXCEPT ![prev] = n], pp |-> pprev]
      [] s = "fixup"   -> [nx |-> nx,
                           pp |-> IF nx[n] \in Nodes
                                  THEN [pprev EXCEPT ![nx[n]] = n] ELSE pprev]

(* Store number i of the insertion of n behind prev, then the next one,  *)
(* or back to idle after the last.                                        *)
DoStore(i, n, prev) ==
    LET r == Apply(Stores[i], n, prev)
    IN  /\ nx' = r.nx
        /\ pprev' = r.pp
        /\ wpc' = IF i = Len(Stores) THEN 0 ELSE i + 1

(* hlist_add_behind_rcu(n, prev) called by the writer on a node not yet  *)
(* on the list, behind a node on it; its first store.                    *)
AddBehind(n, prev) ==
    /\ wpc = 0
    /\ n \in Spare \ OnList /\ prev \in OnList
    /\ DoStore(1, n, prev)
    /\ wn' = n /\ wprev' = prev
    /\ UNCHANGED rVars

(* The writer's next store, which no reader is excluded from watching. *)
Store ==
    /\ wpc # 0
    /\ DoStore(wpc, wn, wprev)
    /\ UNCHANGED <<wn, wprev, rVars>>

(* hlist_for_each_entry_rcu: pos = rcu_dereference(head->first). *)
ReadBegin(r) ==
    /\ rpc[r] = "idle"
    /\ rpc' = [rpc EXCEPT ![r] = "walk"]
    /\ cur' = [cur EXCEPT ![r] = nx[HeadNode]]
    /\ seen' = [seen EXCEPT ![r] = {}]
    /\ must' = [must EXCEPT ![r] = OnList]
    /\ UNCHANGED <<nx, pprev, wVars>>

(* The loop body sees pos; then pos = rcu_dereference(pos->next). *)
ReadNext(r) ==
    /\ rpc[r] = "walk"
    /\ cur[r] \in Nodes
    /\ seen' = [seen EXCEPT ![r] = @ \cup {cur[r]}]
    /\ cur' = [cur EXCEPT ![r] = nx[cur[r]]]
    /\ UNCHANGED <<nx, pprev, wVars, rpc, must>>

(* pos is NULL: the walk ends. *)
ReadEnd(r) ==
    /\ rpc[r] = "walk"
    /\ cur[r] = NULL
    /\ rpc' = [rpc EXCEPT ![r] = "idle"]
    /\ UNCHANGED <<nx, pprev, wVars, cur, seen, must>>

Next ==
    \/ \E n \in Spare, prev \in Nodes : AddBehind(n, prev)
    \/ Store
    \/ \E r \in Readers : ReadBegin(r) \/ ReadNext(r) \/ ReadEnd(r)

Spec == Init /\ [][Next]_vars

-----------------------------------------------------------------------------
(* A lockless reader never follows a pointer the writer has not written:  *)
(* every pos hlist_for_each_entry_rcu reaches is a node or NULL, however  *)
(* its loads interleave with the stores of hlist_add_behind_rcu.          *)
ReaderNeverGarbage ==
    \A r \in Readers : rpc[r] = "walk" => cur[r] # Garbage

(* A reader that reaches the end of the list has visited every node that *)
(* was on it when it started: an insertion never cuts the list short for *)
(* a concurrent reader.                                                   *)
ReaderSeesAll ==
    \A r \in Readers : rpc[r] = "walk" /\ cur[r] = NULL => must[r] \subseteq seen[r]

(* Between insertions the back links are right: for every node on the    *)
(* list, *x->pprev is x, as hlist_del and hlist_del_rcu rely on.           *)
PprevConsistent ==
    wpc = 0 => \A x \in OnList : pprev[x] \in DOMAIN nx /\ nx[pprev[x]] = x
=============================================================================
