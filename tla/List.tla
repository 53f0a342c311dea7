-------------------------------- MODULE List --------------------------------
(***************************************************************************)
(* Programs that use list.c as list.h asks, and what they can rely on.     *)
(***************************************************************************)
EXTENDS ListOps

ASSUME NodesAssumption == IsFiniteSet(Nodes)

VARIABLE ret  \* what the last pop returned

vars == <<heap, ret, order>>

mc_list_pop_head(l) ==
    /\ ret' = head[l]
    /\ IF head[l] = NULL THEN UNCHANGED heap ELSE mc_list_remove(l, head[l])

mc_list_pop_tail(l) ==
    /\ ret' = tail[l]
    /\ IF tail[l] = NULL THEN UNCHANGED heap ELSE mc_list_remove(l, tail[l])

Init ==
    /\ head = [l \in Lists |-> NULL]
    /\ tail = [l \in Lists |-> NULL]
    /\ count = [l \in Lists |-> 0]
    /\ next = [n \in Nodes |-> NULL]
    /\ prev = [n \in Nodes |-> NULL]
    /\ ret = NULL
    /\ order = [l \in Lists |-> <<>>]

\* A list may be initialised again: its nodes keep the links they had.
ReInit(l) ==
    /\ mc_list_init(l)
    /\ order' = [order EXCEPT ![l] = <<>>]
    /\ UNCHANGED ret

\* list.c never asks whether the node is already in a list: the caller does.
PushTail(l, n) ==
    /\ Loose(n)
    /\ mc_list_append(l, n)
    /\ order' = [order EXCEPT ![l] = Append(@, n)]
    /\ UNCHANGED ret

PushHead(l, n) ==
    /\ Loose(n)
    /\ mc_list_prepend(l, n)
    /\ order' = [order EXCEPT ![l] = <<n>> \o @]
    /\ UNCHANGED ret

RemoveMember(l, n) ==
    /\ In(l, n)
    /\ mc_list_remove(l, n)
    /\ order' = [order EXCEPT ![l] = RemoveAt(@, Pos(l, n))]
    /\ UNCHANGED ret

\* The calls that list.h:69-71 calls the easy cases: an empty list, and a node
\* with nothing before it (detached, or at the head of another list).
RemoveStranger(l, n) ==
    /\ ~In(l, n)
    /\ order[l] = <<>> \/ prev[n] = NULL
    /\ mc_list_remove(l, n)
    /\ UNCHANGED <<order, ret>>

PopHead(l) ==
    /\ mc_list_pop_head(l)
    /\ order' = [order EXCEPT ![l] = IF @ = <<>> THEN @ ELSE RemoveAt(@, 1)]

PopTail(l) ==
    /\ mc_list_pop_tail(l)
    /\ order' = [order EXCEPT ![l] = IF @ = <<>> THEN @ ELSE RemoveAt(@, Len(@))]

Next ==
    \E l \in Lists :
        \/ ReInit(l)
        \/ PopHead(l)
        \/ PopTail(l)
        \/ \E n \in Nodes :
            \/ PushTail(l, n)
            \/ PushHead(l, n)
            \/ RemoveMember(l, n)
            \/ RemoveStranger(l, n)

Spec == Init /\ [][Next]_vars

-----------------------------------------------------------------------------
(* Properties                                                              *)

TypeOK ==
    /\ head \in [Lists -> Nodes \union {NULL}]
    /\ tail \in [Lists -> Nodes \union {NULL}]
    /\ count \in [Lists -> Nat]
    /\ next \in [Nodes -> Nodes \union {NULL}]
    /\ prev \in [Nodes -> Nodes \union {NULL}]
    /\ ret \in Nodes \union {NULL}
    /\ order \in [Lists -> Seq(Nodes)]

\* What a reader of the memory finds: the walk along next from the head, one
\* step longer than there are nodes, so that a cycle shows as a node too many.
Walk(l) ==
    LET at[k \in 1..(Cardinality(Nodes) + 1)] ==
            IF k = 1 THEN head[l] ELSE mc_list_next(at[k - 1])
    IN  at

\* A walk that has come to NULL stays there.
Forward(l) ==
    SubSeq(Walk(l), 1, Cardinality({k \in DOMAIN Walk(l) : Walk(l)[k] # NULL}))

Seen == [l \in Lists |-> Forward(l)]

\* The nodes as MC_LIST_FOR_EACH meets them, and what pops return, change as
\* list.h says they do, call by call: list.c implements ListSpec.
Abstract == INSTANCE ListSpec WITH order <- Seen
ImplementsSequences == Abstract!Spec

-----------------------------------------------------------------------------
(* Callers that trust the comments at list.c:73 and list.c:90, "Node is    *)
(* detached or belongs to a different list. Abort.", and hand to one list  *)
(* the first or the last node of another.                                  *)

EndOfAnother(l, n) ==
    \E m \in Lists \ {l} : order[m] # <<>> /\ n \in {Head(order[m]), Last(order[m])}

RemoveForeignEnd(l, n) ==
    /\ EndOfAnother(l, n)
    /\ mc_list_remove(l, n)
    /\ UNCHANGED <<order, ret>>

TrustingNext == Next \/ \E l \in Lists, n \in Nodes : RemoveForeignEnd(l, n)

TrustingSpec == Init /\ [][TrustingNext]_vars

\* A remove that aborts because the node is at an end of a different list has
\* changed no list and no node.
AbortIsNoOp ==
    [][\A l \in Lists, n \in Nodes : RemoveForeignEnd(l, n) => UNCHANGED heap]_vars
=============================================================================
