------------------------------ MODULE Resource ------------------------------
(***************************************************************************)
(* src/core/resource.c: a pool of resources lent by key.  The manager      *)
(* keeps no record of who asked: several clients may ask for one key, and  *)
(* all get the same resource, until anyone gives it back.  The clients are *)
(* part of the model because that is where leases go wrong.                *)
(***************************************************************************)
EXTENDS Integers, TLC

CONSTANTS
    Count,   \* mgr->count
    Data,    \* the resources
    data,    \* pool[i].data
    Keys,    \* int32_t keys
    Clients,
    NULL

Slots == 1..Count

\* MC_RESOURCE_ENTRY takes the address of an object: never NULL, and each
\* object is given one entry.  Static entries start with key 0.
ASSUME ResourceAssumption ==
    /\ Count \in 0..255
    /\ data \in [Slots -> Data]
    /\ \A i, j \in Slots : data[i] = data[j] => i = j
    /\ \A d \in Data : \E i \in Slots : data[i] = d
    /\ NULL \notin Data
    /\ 0 \in Keys /\ Keys \subseteq Int

VARIABLES
    key, busy, \* pool[i].key, pool[i].is_busy
    ret,       \* what the last acquire or get returned
    call,      \* which call was the last, so that its answer can be judged
    held       \* what each client got last and has not given back

pool == <<key, busy>>
vars == <<pool, ret, call, held>>

Calls == {"none", "acquire", "get", "release"}

Nothing == [key |-> 0, data |-> NULL]

-----------------------------------------------------------------------------
(* The calls of resource.c, each a scan that stops at the first slot       *)

\* Mutant: the scan does not look at is_busy.
HoldingStale(k) == {i \in Slots : key[i] = k}

Holding(k) == {i \in Slots : busy[i] /\ key[i] = k}

\* Mutant: a slot is lent only while it has the key it was made with.
FreeWhenUnused == {i \in Slots : ~busy[i] /\ key[i] = 0}

Free == {i \in Slots : ~busy[i]}

First(i, S) == i \in S /\ \A j \in S : i <= j

\* ret' is the resource of the key.
mc_resource_get(k) ==
    \/ /\ Holding(k) = {}
       /\ ret' = NULL
    \/ \E i \in Slots :
        /\ First(i, Holding(k))
        /\ ret' = data[i]

Found(k) == Holding(k) # {} /\ mc_resource_get(k) /\ UNCHANGED pool

\* Mutant: the entry is returned and not what it holds.
ClaimReturnsEntry(k) ==
    \E i \in Slots :
        /\ Holding(k) = {}
        /\ First(i, Free)
        /\ busy' = [busy EXCEPT ![i] = TRUE]
        /\ key' = [key EXCEPT ![i] = k]
        /\ ret' = i

Claim(k) ==
    \E i \in Slots :
        /\ Holding(k) = {}
        /\ First(i, Free)
        /\ busy' = [busy EXCEPT ![i] = TRUE]
        /\ key' = [key EXCEPT ![i] = k]
        /\ ret' = data[i]

Full(k) ==
    /\ Holding(k) = {}
    /\ Free = {}
    /\ ret' = NULL
    /\ UNCHANGED pool

\* Mutant: the pool is searched for a free slot first.
AcquireAnew(k) ==
    \/ \E i \in Slots :
        /\ First(i, Free)
        /\ busy' = [busy EXCEPT ![i] = TRUE]
        /\ key' = [key EXCEPT ![i] = k]
        /\ ret' = data[i]
    \/ Free = {} /\ mc_resource_get(k) /\ UNCHANGED pool

mc_resource_acquire(k) == Found(k) \/ Claim(k) \/ Full(k)

Vacate(S) ==
    /\ \/ S = {} /\ UNCHANGED busy
       \/ \E i \in Slots : First(i, S) /\ busy' = [busy EXCEPT ![i] = FALSE]
    /\ UNCHANGED <<key, ret>>

mc_resource_release(d) == Vacate({i \in Slots : data[i] = d})

mc_resource_release_key(k) == Vacate(Holding(k))

-----------------------------------------------------------------------------
(* The clients                                                             *)

Acquire(c, k) ==
    /\ held[c] = Nothing
    /\ mc_resource_acquire(k)
    /\ call' = "acquire"
    /\ held' = [held EXCEPT ![c] = IF ret' = NULL THEN Nothing ELSE [key |-> k, data |-> ret']]

\* A client may look a key up without asking for it.
Look(k) == mc_resource_get(k) /\ call' = "get" /\ UNCHANGED <<pool, held>>

\* Every other client that uses d: the discipline the manager leaves to its
\* clients is that nobody gives back what another one still uses.
UsedBy(d) == {c \in Clients : held[c].data = d}

GiveBack(c) ==
    /\ held[c] # Nothing
    /\ UsedBy(held[c].data) = {c}
    /\ mc_resource_release(held[c].data) \/ mc_resource_release_key(held[c].key)
    /\ call' = "release"
    /\ held' = [held EXCEPT ![c] = Nothing]

\* A client that shares its resource just stops using it.
Leave(c) ==
    /\ UsedBy(held[c].data) # {c}
    /\ held[c] # Nothing
    /\ held' = [held EXCEPT ![c] = Nothing]
    /\ UNCHANGED <<pool, ret, call>>

\* Releases of what nobody uses: ResourceTest.SetUp releases the whole pool.
Sweep ==
    /\ \/ \E d \in Data : UsedBy(d) = {} /\ mc_resource_release(d)
       \/ \E k \in Keys : (\A c \in Clients : held[c] = Nothing \/ held[c].key # k)
                            /\ mc_resource_release_key(k)
    /\ call' = "release"
    /\ UNCHANGED held

Init ==
    /\ key = [i \in Slots |-> 0]
    /\ busy = [i \in Slots |-> FALSE]
    /\ ret = NULL
    /\ call = "none"
    /\ held = [c \in Clients |-> Nothing]

Next ==
    \/ \E c \in Clients :
        \/ \E k \in Keys : Acquire(c, k)
        \/ GiveBack(c)
        \/ Leave(c)
    \/ \E k \in Keys : Look(k)
    \/ Sweep

Spec == Init /\ [][Next]_vars

-----------------------------------------------------------------------------
(* Properties                                                              *)

TypeOK ==
    /\ key \in [Slots -> Keys]
    /\ busy \in [Slots -> BOOLEAN]
    /\ ret \in Data \union {NULL}
    /\ call \in Calls
    /\ held \in [Clients -> [key : Keys, data : Data \union {NULL}]]

\* No two busy slots have one key, although a slot keeps its old key when it is
\* given back and both scans stop at the first match (resource.c:8-24).
OneSlotPerKey ==
    \A i, j \in Slots : busy[i] /\ busy[j] /\ key[i] = key[j] => i = j

\* While clients give back only what no other client uses, what a client holds
\* is lent under the key it asked for, however the slots are given back and lent
\* again; so two clients use one resource only if they asked for one key.
HoldersKeepTheirs ==
    \A c \in Clients : held[c] # Nothing =>
        \E i \in Slots : busy[i] /\ key[i] = held[c].key /\ data[i] = held[c].data

lease == [k \in Keys |-> IF Holding(k) = {} THEN NULL ELSE data[CHOOSE i \in Holding(k) : TRUE]]

\* The slots, flags and stale keys behave as a table of leases that turns no
\* request down while a resource is free (resource.h:36-42).
Leases == INSTANCE LeaseSpec
ImplementsLeases == Leases!Spec
=============================================================================
