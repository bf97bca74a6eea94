------------------------------ MODULE ListCut ------------------------------
(***************************************************************************)
(* vmwgfx_lcp and __vmwgfx_lcp (src/vmwgfx_compat.h), the                  *)
(* list_cut_position of kernels up to 2.6.27: the doubly linked list      *)
(* head is cut after entry, and the part up to and including entry moves  *)
(* to list.  The lists are next/prev pointer functions over the nodes, as *)
(* in struct list_head, and each pointer store is applied in the code's   *)
(* order.  One call is one step: callers hold the lock of the list.       *)
(***************************************************************************)
EXTENDS Naturals, Sequences, SequencesExt

CONSTANTS
    Elems,      \* the entries that can be on head
    HeadNode,       \* the list_head head
    ListNode        \* the list_head list receiving the cut part

Nodes == Elems \cup {HeadNode, ListNode}

ASSUME HeadNode \notin Elems /\ ListNode \notin Elems /\ HeadNode # ListNode

VARIABLES
    nx,         \* nx[n] = n->next
    pv,         \* pv[n] = n->prev
    entry,      \* the entry argument
    before,     \* the entries on head when the call was made
    pc

vars == <<nx, pv, entry, before, pc>>

(* A circular list with sentinel s and the entries of seq in order. *)
Linked(s, seq) ==
    LET n == Len(seq)
        At(i) == IF i = 0 \/ i = n + 1 THEN s ELSE seq[i]
    IN  [next |-> [i \in 0..n |-> At(i + 1)], prev |-> [i \in 1..n + 1 |-> At(i - 1)]]

(* Pointers of head holding seq and an empty list; others point to self. *)
Build(seq) ==
    LET L == Linked(HeadNode, seq)
        Pos(x) == CHOOSE i \in 1..Len(seq) : seq[i] = x
    IN  [next |-> [x \in Nodes |->
                     IF x = HeadNode THEN L.next[0]
                     ELSE IF x \in ToSet(seq) THEN L.next[Pos(x)] ELSE x],
         prev |-> [x \in Nodes |->
                     IF x = HeadNode THEN L.prev[Len(seq) + 1]
                     ELSE IF x \in ToSet(seq) THEN L.prev[Pos(x)] ELSE x]]

(* Every list of distinct entries. *)
Lists == UNION {{s \in [1..k -> Elems] : IsInjective(s)} : k \in 0..Cardinality(Elems)}

Init ==
    /\ before \in Lists
    /\ entry \in ToSet(before) \cup {HeadNode}
    /\ nx = Build(before).next
    /\ pv = Build(before).prev
    /\ pc = "call"

TypeOK ==
    /\ nx \in [Nodes -> Nodes]
    /\ pv \in [Nodes -> Nodes]
    /\ entry \in Elems \cup {HeadNode}
    /\ before \in Lists
    /\ pc \in {"call", "done"}

-----------------------------------------------------------------------------
(* Mutant: new_first read after entry->next = list. *)
CutLateRead(n, p, list, head, e) ==
    LET n1 == [n EXCEPT ![list] = n[head]]
        p1 == [p EXCEPT ![n1[list]] = list]
        p2 == [p1 EXCEPT ![list] = e]
        n2 == [n1 EXCEPT ![e] = list]
        newFirst == n2[e]
        n3 == [n2 EXCEPT ![head] = newFirst]
        p3 == [p2 EXCEPT ![newFirst] = head]
    IN  <<n3, p3>>

(* Mutant: __vmwgfx_lcp without new_first->prev = head. *)
CutNoBackLink(n, p, list, head, e) ==
    LET newFirst == n[e]
        n1 == [n EXCEPT ![list] = n[head]]
        p1 == [p EXCEPT ![n1[list]] = list]
        p2 == [p1 EXCEPT ![list] = e]
        n2 == [n1 EXCEPT ![e] = list]
        n3 == [n2 EXCEPT ![head] = newFirst]
    IN  <<n3, p2>>

(* __vmwgfx_lcp: the six pointer stores, each reading the pointers the    *)
(* stores before it left.                                                 *)
Cut(n, p, list, head, e) ==
    LET newFirst == n[e]
        n1 == [n EXCEPT ![list] = n[head]]
        p1 == [p EXCEPT ![n1[list]] = list]
        p2 == [p1 EXCEPT ![list] = e]
        n2 == [n1 EXCEPT ![e] = list]
        n3 == [n2 EXCEPT ![head] = newFirst]
        p3 == [p2 EXCEPT ![newFirst] = head]
    IN  <<n3, p3>>

(* vmwgfx_lcp(list, head, entry): nothing on an empty head or on a        *)
(* single-entry head whose entry is neither the entry nor head; an empty  *)
(* list when entry is head; the cut otherwise.                            *)
Lcp ==
    /\ pc = "call"
    /\ pc' = "done"
    /\ CASE nx[HeadNode] = HeadNode -> UNCHANGED <<nx, pv>>
         [] nx[HeadNode] = pv[HeadNode] /\ nx[HeadNode] # entry /\ HeadNode # entry ->
              UNCHANGED <<nx, pv>>
         [] entry = HeadNode ->
              /\ nx' = [nx EXCEPT ![ListNode] = ListNode]
              /\ pv' = [pv EXCEPT ![ListNode] = ListNode]
         [] OTHER ->
              LET r == Cut(nx, pv, ListNode, HeadNode, entry)
              IN  nx' = r[1] /\ pv' = r[2]
    /\ UNCHANGED <<entry, before>>

Next == Lcp

Spec == Init /\ [][Next]_vars

-----------------------------------------------------------------------------
(* The entries reached from sentinel s by following next pointers.        *)
RECURSIVE Walk(_, _, _)
Walk(s, x, fuel) ==
    IF x = s \/ fuel = 0 THEN << >> ELSE <<x>> \o Walk(s, nx[x], fuel - 1)

Entries(s) == Walk(s, nx[s], Cardinality(Nodes))

(* list_cut_position's contract: "moves the initial part of head, up to  *)
(* and including entry, from head to list"; when entry is head, or head  *)
(* is empty, nothing is cut.                                              *)
CutMatchesContract ==
    pc = "done" =>
       LET i == IF entry = HeadNode THEN 0
                ELSE SelectInSeq(before, LAMBDA x : x = entry)
       IN  /\ Entries(ListNode) = SubSeq(before, 1, i)
           /\ Entries(HeadNode) = SubSeq(before, i + 1, Len(before))

(* Both lists stay doubly linked: following next then prev from any node *)
(* of either list returns to it, so a later list_del or backward walk    *)
(* sees the same lists.                                                   *)
LinksConsistent ==
    \A s \in {HeadNode, ListNode} :
       \A x \in ToSet(Entries(s)) \cup {s} : pv[nx[x]] = x
=============================================================================
