----------------------------- MODULE MCIdAlloc -----------------------------
EXTENDS IdAlloc

CONSTANTS t1, t2, t3

(* Two callers of ida_simple_get. *)
MCThreadsIda == {t1, t2}
MCApiOfIda == [t \in MCThreadsIda |-> "ida"]
=============================================================================
