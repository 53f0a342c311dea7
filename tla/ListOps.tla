------------------------------ MODULE ListOps ------------------------------
(***************************************************************************)
(* The intrusive doubly linked list of src/core/list.c, pointer by         *)
(* pointer: the memory and the calls.  mc_list_t is the three functions    *)
(* head, tail and count over Lists; mc_node_t is next and prev over Nodes. *)
(* Several lists share one population of nodes, as the listener lists of   *)
(* several events share the callbacks of an application.  The operators    *)
(* named mc_list_* give the whole effect of one call on that memory.       *)
(*                                                                         *)
(* `order' is a history variable: the sequences the callers have asked     *)
(* for.  No mc_list operator reads or writes it; the modules of the        *)
(* callers (List, Event) do.                                               *)
(***************************************************************************)
EXTENDS SequencesExt

CONSTANTS
    Lists,  \* the mc_list_t objects
    Nodes,  \* the mc_node_t objects, embedded in what users put in lists
    NULL

ASSUME NullAssumption == NULL \notin Nodes

VARIABLES head, tail, count, next, prev, order

heap == <<head, tail, count, next, prev>>

-----------------------------------------------------------------------------
(* The calls of list.c                                                     *)

mc_list_init(l) ==
    /\ count' = [count EXCEPT ![l] = 0]
    /\ head' = [head EXCEPT ![l] = NULL]
    /\ tail' = [tail EXCEPT ![l] = NULL]
    /\ UNCHANGED <<next, prev>>

\* Mutant: a non-empty list does not link its old tail to the new node.
AppendForgetsLink(l, n) ==
    /\ prev' = [prev EXCEPT ![n] = tail[l]]
    /\ next' = [next EXCEPT ![n] = NULL]
    /\ head' = IF count[l] = 0 THEN [head EXCEPT ![l] = n] ELSE head
    /\ tail' = [tail EXCEPT ![l] = n]
    /\ count' = [count EXCEPT ![l] = @ + 1]

mc_list_append(l, n) ==
    /\ prev' = [prev EXCEPT ![n] = tail[l]]
    /\ IF count[l] = 0
       THEN /\ head' = [head EXCEPT ![l] = n]
            /\ next' = [next EXCEPT ![n] = NULL]
       ELSE /\ next' = [next EXCEPT ![n] = NULL, ![tail[l]] = n]
            /\ UNCHANGED head
    /\ tail' = [tail EXCEPT ![l] = n]
    /\ count' = [count EXCEPT ![l] = @ + 1]

mc_list_prepend(l, n) ==
    /\ next' = [next EXCEPT ![n] = head[l]]
    /\ IF count[l] = 0
       THEN /\ tail' = [tail EXCEPT ![l] = n]
            /\ prev' = [prev EXCEPT ![n] = NULL]
       ELSE /\ prev' = [prev EXCEPT ![n] = NULL, ![head[l]] = n]
            /\ UNCHANGED tail
    /\ head' = [head EXCEPT ![l] = n]
    /\ count' = [count EXCEPT ![l] = @ + 1]

\* Mutant: an empty list is searched too.
RemoveTriesEmpty(l, n) == prev[n] = NULL /\ head[l] # n

\* Mutant: a node without predecessor is never removed, the head included.
RemoveIgnoresHead(l, n) == count[l] = 0 \/ prev[n] = NULL

\* The two early returns that precede every write.
RemoveIgnores(l, n) == count[l] = 0 \/ (prev[n] = NULL /\ head[l] # n)

\* Step 1 of mc_list_remove: the predecessor, or the head, skips n.
SkipForward(l, n) ==
    IF prev[n] = NULL
    THEN head' = [head EXCEPT ![l] = next[n]]
    ELSE UNCHANGED head

BridgedNext(n) ==
    IF prev[n] = NULL THEN next ELSE [next EXCEPT ![prev[n]] = next[n]]

\* Steps 2 and 3: the successor, or the tail, skips n; n is cleaned.  The
\* return on a foreign last node comes after the write of step 1.
RemoveLinks(l, n) ==
    IF next[n] = NULL /\ tail[l] # n
    THEN /\ next' = BridgedNext(n)
         /\ UNCHANGED <<tail, count, prev>>
    ELSE /\ next' = [BridgedNext(n) EXCEPT ![n] = NULL]
         /\ IF next[n] = NULL
            THEN /\ tail' = [tail EXCEPT ![l] = prev[n]]
                 /\ prev' = [prev EXCEPT ![n] = NULL]
            ELSE /\ prev' = [prev EXCEPT ![next[n]] = prev[n], ![n] = NULL]
                 /\ UNCHANGED tail
         /\ count' = [count EXCEPT ![l] = @ - 1]

\* Mutant: the tail pointer is not moved when the last node leaves.
RemoveKeepsTail(l, n) ==
    IF RemoveIgnores(l, n)
    THEN UNCHANGED heap
    ELSE /\ SkipForward(l, n)
         /\ next' = [BridgedNext(n) EXCEPT ![n] = NULL]
         /\ prev' = [k \in Nodes |-> IF k = n THEN NULL
                                     ELSE IF k = next[n] THEN prev[n]
                                     ELSE prev[k]]
         /\ UNCHANGED tail
         /\ count' = [count EXCEPT ![l] = @ - 1]

mc_list_remove(l, n) ==
    IF RemoveIgnores(l, n)
    THEN UNCHANGED heap
    ELSE SkipForward(l, n) /\ RemoveLinks(l, n)

mc_list_next(n) == IF n = NULL THEN NULL ELSE next[n]


-----------------------------------------------------------------------------
(* What the callers know of the lists                                      *)

In(l, n) == \E i \in DOMAIN order[l] : order[l][i] = n
Loose(n) == \A l \in Lists : ~In(l, n)

\* Position of a node in its list.
Pos(l, n) == CHOOSE i \in DOMAIN order[l] : order[l][i] = n

-----------------------------------------------------------------------------
(* What a correct memory is                                                *)

\* A head, a tail, a count and two link functions that hold the sequence s.
Chain(s, h, t, c, nx, pv) ==
    /\ c = Len(s)
    /\ h = IF Len(s) = 0 THEN NULL ELSE s[1]
    /\ t = IF Len(s) = 0 THEN NULL ELSE s[Len(s)]
    /\ \A i \in 1..Len(s) : nx[s[i]] = IF i = Len(s) THEN NULL ELSE s[i + 1]
    /\ \A i \in 1..Len(s) : pv[s[i]] = IF i = 1 THEN NULL ELSE s[i - 1]

Linked(l) == Chain(order[l], head[l], tail[l], count[l], next, prev)

Separate ==
    \A l, m \in Lists : \A i \in 1..Len(order[l]), j \in 1..Len(order[m]) :
        order[l][i] = order[m][j] => l = m /\ i = j

\* Whatever was pushed, popped, removed or re-initialised, in whatever lists,
\* the head, the tail, the count and the links of every list in both directions
\* are those of the sequence its callers built, and no node is in two places:
\* the claim list.c makes of its O(1) link surgery.
WellLinked == (\A l \in Lists : Linked(l)) /\ Separate

=============================================================================
