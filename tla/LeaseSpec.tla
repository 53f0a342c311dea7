----------------------------- MODULE LeaseSpec -----------------------------
(***************************************************************************)
(* What a resource manager promises: a table of leases from keys to the    *)
(* resources of a pool, no resource under two keys, and no request turned  *)
(* down while a resource is free.                                          *)
(***************************************************************************)
CONSTANTS Keys, Data, NULL

VARIABLES
    lease,
    ret, call  \* what the last answer was, and to which call

vars == <<lease, ret, call>>

Taken == {lease[k] : k \in Keys} \ {NULL}

Grant(k) ==
    \E d \in Data \ Taken :
        /\ lease[k] = NULL
        /\ lease' = [lease EXCEPT ![k] = d]
        /\ ret' = d
    /\ call' = "acquire"

\* A request for a key that has its resource.
Find(k) ==
    /\ lease[k] # NULL
    /\ ret' = lease[k]
    /\ call' = "acquire"
    /\ UNCHANGED lease

Refuse(k) ==
    /\ lease[k] = NULL
    /\ Data \subseteq Taken
    /\ ret' = NULL
    /\ call' = "acquire"
    /\ UNCHANGED lease

Look(k) == ret' = lease[k] /\ call' = "get" /\ UNCHANGED lease

\* Giving back NULL gives back nothing.
Release(d) ==
    /\ lease' = [k \in Keys |-> IF lease[k] = d THEN NULL ELSE lease[k]]
    /\ call' = "release"
    /\ UNCHANGED ret

Init == lease = [k \in Keys |-> NULL] /\ ret = NULL /\ call = "none"

Next ==
    \/ \E k \in Keys : Grant(k) \/ Find(k) \/ Refuse(k) \/ Look(k)
    \/ \E d \in Data \union {NULL} : Release(d)

Spec == Init /\ [][Next]_vars
=============================================================================
