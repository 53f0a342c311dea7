------------------------------ MODULE ListSpec ------------------------------
(***************************************************************************)
(* What mc/list.h promises: each list is a sequence of nodes, a node is in *)
(* at most one list, and each call does to the sequence what its comment   *)
(* in the header says.  Module List is shown to implement this one.        *)
(***************************************************************************)
EXTENDS SequencesExt

CONSTANTS Lists, Nodes, NULL

VARIABLES
    order,  \* the nodes of each list, from head to tail
    ret     \* what the last pop returned

specVars == <<order, ret>>

Free == {n \in Nodes : \A l \in Lists : n \notin ToSet(order[l])}

Init ==
    /\ order = [l \in Lists |-> <<>>]
    /\ ret = NULL

Reset(l) ==
    /\ order' = [order EXCEPT ![l] = <<>>]
    /\ UNCHANGED ret

PutLast(l, n) ==
    /\ n \in Free
    /\ order' = [order EXCEPT ![l] = Append(@, n)]
    /\ UNCHANGED ret

PutFirst(l, n) ==
    /\ n \in Free
    /\ order' = [order EXCEPT ![l] = <<n>> \o @]
    /\ UNCHANGED ret

\* Removing a node that is not in the list does nothing.
TakeOut(l, n) ==
    /\ \/ n \notin ToSet(order[l]) /\ UNCHANGED order
       \/ \E i \in DOMAIN order[l] :
            order[l][i] = n /\ order' = [order EXCEPT ![l] = RemoveAt(@, i)]
    /\ UNCHANGED ret

TakeFirst(l) ==
    /\ order' = [order EXCEPT ![l] = IF @ = <<>> THEN @ ELSE Tail(@)]
    /\ ret' = IF order[l] = <<>> THEN NULL ELSE Head(order[l])

TakeLast(l) ==
    /\ order' = [order EXCEPT ![l] = IF @ = <<>> THEN @ ELSE Front(@)]
    /\ ret' = IF order[l] = <<>> THEN NULL ELSE Last(order[l])

Next ==
    \E l \in Lists :
        \/ Reset(l) \/ TakeFirst(l) \/ TakeLast(l)
        \/ \E n \in Nodes : PutLast(l, n) \/ PutFirst(l, n) \/ TakeOut(l, n)

Spec == Init /\ [][Next]_specVars
=============================================================================
