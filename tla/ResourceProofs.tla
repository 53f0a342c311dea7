--------------------------- MODULE ResourceProofs ---------------------------
(***************************************************************************)
(* For every pool, every set of keys and any number of clients: one slot   *)
(* per key, holders keep what they hold, and the pool implements the table *)
(* of leases.                                                              *)
(***************************************************************************)
EXTENDS Resource, TLAPS

IInv == TypeOK /\ OneSlotPerKey /\ HoldersKeepTheirs

(***************************************************************************)
(* The three things a call does to the pool.                               *)
(***************************************************************************)
Claims(i, k) ==
    /\ ~busy[i] /\ Holding(k) = {}
    /\ busy' = [busy EXCEPT ![i] = TRUE]
    /\ key' = [key EXCEPT ![i] = k]

Frees(i) ==
    /\ busy' = [busy EXCEPT ![i] = FALSE]
    /\ UNCHANGED <<key, ret>>

\* What mc_resource_get found.
Finds(k) ==
    \/ Holding(k) = {} /\ ret' = NULL
    \/ \E i \in Holding(k) : ret' = data[i]

LEMMA GetFinds == ASSUME NEW k, mc_resource_get(k) PROVE Finds(k)
  BY DEF mc_resource_get, Finds, First

\* Every acquire claims a slot, or finds one, or has nothing to give.
LEMMA AcquireCases ==
    ASSUME NEW k \in Keys, mc_resource_acquire(k)
    PROVE  \/ \E i \in Slots : Claims(i, k) /\ ret' = data[i]
           \/ \E i \in Holding(k) : ret' = data[i] /\ UNCHANGED pool
           \/ Holding(k) = {} /\ Free = {} /\ ret' = NULL /\ UNCHANGED pool
  <1>1. CASE Found(k)
    BY <1>1, GetFinds DEF Found, Finds
  <1>2. CASE Claim(k)
    BY <1>2 DEF Claim, Claims, First, Free
  <1>3. CASE Full(k)
    BY <1>3 DEF Full
  <1> QED
    BY <1>1, <1>2, <1>3 DEF mc_resource_acquire

LEMMA VacateCases ==
    ASSUME NEW S \in SUBSET Slots, Vacate(S)
    PROVE  \/ S = {} /\ UNCHANGED <<pool, ret>>
           \/ \E i \in S : Frees(i)
  BY DEF Vacate, Frees, First, pool

-----------------------------------------------------------------------------
(* Induction steps, one per effect on the pool                             *)

\* Claiming keeps every slot that was busy as it was.
LEMMA ClaimsKeeps ==
    ASSUME TypeOK, OneSlotPerKey, NEW i \in Slots, NEW k \in Keys, Claims(i, k)
    PROVE  /\ key' \in [Slots -> Keys] /\ busy' \in [Slots -> BOOLEAN]
           /\ busy'[i] /\ key'[i] = k
           /\ \A j \in Slots : busy[j] => j # i /\ busy'[j] /\ key'[j] = key[j]
           /\ \A j \in Slots : busy'[j] => j = i \/ (busy[j] /\ key'[j] = key[j])
           /\ OneSlotPerKey'
  <1>1. /\ key' \in [Slots -> Keys] /\ busy' \in [Slots -> BOOLEAN]
        /\ busy'[i] = TRUE /\ key'[i] = k
        /\ \A j \in Slots : j # i => busy'[j] = busy[j] /\ key'[j] = key[j]
    BY DEF TypeOK, Claims
  <1>2. ~busy[i] /\ \A j \in Slots : busy[j] => key[j] # k
    BY DEF Claims, Holding
  <1>3. OneSlotPerKey'
    BY <1>1, <1>2 DEF OneSlotPerKey
  <1> QED
    BY <1>1, <1>2, <1>3

LEMMA FreesKeeps ==
    ASSUME TypeOK, OneSlotPerKey, NEW i \in Slots, Frees(i)
    PROVE  /\ busy' \in [Slots -> BOOLEAN]
           /\ ~busy'[i]
           /\ \A j \in Slots : j # i => (busy'[j] <=> busy[j])
           /\ OneSlotPerKey'
  <1>1. /\ busy' \in [Slots -> BOOLEAN] /\ busy'[i] = FALSE
        /\ \A j \in Slots : j # i => busy'[j] = busy[j]
    BY DEF TypeOK, Frees
  <1>2. key' = key
    BY DEF Frees
  <1>3. OneSlotPerKey'
    BY <1>1, <1>2 DEF OneSlotPerKey
  <1> QED
    BY <1>1, <1>3

\* A client asks for a resource.
LEMMA AcquireSafe ==
    ASSUME ResourceAssumption, IInv, NEW c \in Clients, NEW k \in Keys, Acquire(c, k)
    PROVE  IInv'
  <1> DEFINE got == IF ret' = NULL THEN Nothing ELSE [key |-> k, data |-> ret']
  <1>1. TypeOK /\ OneSlotPerKey /\ HoldersKeepTheirs
    BY DEF IInv
  <1>2. held' = [held EXCEPT ![c] = got] /\ mc_resource_acquire(k) /\ call' \in Calls
    BY DEF Acquire, Calls
  <1>3. /\ held'[c] = got
        /\ \A e \in Clients : e # c => held'[e] = held[e]
    BY <1>1, <1>2 DEF TypeOK
  <1>4. ASSUME ret' \in Data \union {NULL} PROVE held' \in [Clients -> [key : Keys, data : Data \union {NULL}]]
    <2>1. Nothing \in [key : Keys, data : Data \union {NULL}]
      BY DEF Nothing, ResourceAssumption
    <2>2. got \in [key : Keys, data : Data \union {NULL}]
      BY <1>4, <2>1
    <2> QED
      BY <1>1, <1>2, <2>2 DEF TypeOK
  <1>5. ret' = NULL => got = Nothing
    OBVIOUS
  <1>6. ret' # NULL => got.key = k /\ got.data = ret'
    OBVIOUS
  <1> HIDE DEF got
  <1>7. ASSUME NEW i \in Slots, Claims(i, k), ret' = data[i] PROVE IInv'
    <2>1. /\ key' \in [Slots -> Keys] /\ busy' \in [Slots -> BOOLEAN]
          /\ busy'[i] /\ key'[i] = k
          /\ \A j \in Slots : busy[j] => j # i /\ busy'[j] /\ key'[j] = key[j]
          /\ OneSlotPerKey'
      BY <1>1, <1>7, ClaimsKeeps
    <2>2. ret' \in Data /\ ret' # NULL
      BY <1>7 DEF ResourceAssumption
    <2>3. TypeOK'
      BY <1>2, <1>4, <2>1, <2>2 DEF TypeOK
    <2>4. HoldersKeepTheirs'
      BY <1>1, <1>3, <1>6, <1>7, <2>1, <2>2 DEF HoldersKeepTheirs
    <2> QED
      BY <2>1, <2>3, <2>4 DEF IInv
  <1>8. ASSUME NEW i \in Holding(k), ret' = data[i], UNCHANGED pool PROVE IInv'
    <2>1. i \in Slots /\ busy[i] /\ key[i] = k
      BY DEF Holding
    <2>2. ret' \in Data /\ ret' # NULL
      BY <1>8, <2>1 DEF ResourceAssumption
    <2>3. key' = key /\ busy' = busy
      BY <1>8 DEF pool
    <2>4. TypeOK'
      BY <1>1, <1>2, <1>4, <2>2, <2>3 DEF TypeOK
    <2>5. HoldersKeepTheirs'
      BY <1>1, <1>3, <1>6, <1>8, <2>1, <2>2, <2>3 DEF HoldersKeepTheirs
    <2>6. OneSlotPerKey'
      BY <1>1, <2>3 DEF OneSlotPerKey
    <2> QED
      BY <2>4, <2>5, <2>6 DEF IInv
  <1>9. ASSUME ret' = NULL, UNCHANGED pool PROVE IInv'
    <2>1. key' = key /\ busy' = busy
      BY <1>9 DEF pool
    <2>2. TypeOK'
      BY <1>1, <1>2, <1>4, <1>9, <2>1 DEF TypeOK
    <2>3. HoldersKeepTheirs'
      BY <1>1, <1>3, <1>5, <1>9, <2>1 DEF HoldersKeepTheirs
    <2>4. OneSlotPerKey'
      BY <1>1, <2>1 DEF OneSlotPerKey
    <2> QED
      BY <2>2, <2>3, <2>4 DEF IInv
  <1> QED
    BY <1>2, <1>7, <1>8, <1>9, AcquireCases

\* A slot is given up that no client uses any more.
LEMMA FreesSafe ==
    ASSUME ResourceAssumption, IInv, NEW i \in Slots, Frees(i), call' \in Calls,
           held' \in [Clients -> [key : Keys, data : Data \union {NULL}]],
           \A e \in Clients : held'[e] # Nothing =>
                held'[e] = held[e] /\ held[e].data # data[i]
    PROVE  IInv'
  <1>1. TypeOK /\ OneSlotPerKey /\ HoldersKeepTheirs
    BY DEF IInv
  <1>2. /\ busy' \in [Slots -> BOOLEAN]
        /\ \A j \in Slots : j # i => (busy'[j] <=> busy[j])
        /\ OneSlotPerKey'
    BY <1>1, FreesKeeps
  <1>3. key' = key /\ ret' = ret
    BY DEF Frees
  <1>4. TypeOK'
    BY <1>1, <1>2, <1>3 DEF TypeOK
  <1>5. HoldersKeepTheirs'
    <2> SUFFICES ASSUME NEW e \in Clients, held'[e] # Nothing
                 PROVE  \E j \in Slots : busy'[j] /\ key'[j] = held'[e].key /\ data[j] = held'[e].data
      BY DEF HoldersKeepTheirs
    <2>1. held'[e] = held[e] /\ held[e].data # data[i]
      OBVIOUS
    <2>2. PICK j \in Slots : busy[j] /\ key[j] = held[e].key /\ data[j] = held[e].data
      BY <1>1, <2>1 DEF HoldersKeepTheirs
    <2>3. j # i
      BY <2>1, <2>2
    <2> QED
      BY <1>2, <1>3, <2>1, <2>2, <2>3
  <1> QED
    BY <1>2, <1>4, <1>5 DEF IInv

\* Nothing changes but that some clients stop using what they held.
LEMMA IdleSafe ==
    ASSUME IInv, UNCHANGED pool, ret' \in Data \union {NULL}, call' \in Calls,
           held' \in [Clients -> [key : Keys, data : Data \union {NULL}]],
           \A e \in Clients : held'[e] # Nothing => held'[e] = held[e]
    PROVE  IInv'
  <1>1. key' = key /\ busy' = busy
    BY DEF pool
  <1>2. TypeOK' /\ OneSlotPerKey'
    BY <1>1 DEF IInv, TypeOK, OneSlotPerKey
  <1>3. HoldersKeepTheirs'
    BY <1>1 DEF IInv, HoldersKeepTheirs
  <1> QED
    BY <1>2, <1>3 DEF IInv

LEMMA StopsUsing ==
    ASSUME ResourceAssumption, TypeOK, NEW c \in Clients,
           held' = [held EXCEPT ![c] = Nothing]
    PROVE  /\ held' \in [Clients -> [key : Keys, data : Data \union {NULL}]]
           /\ \A e \in Clients : held'[e] # Nothing => held'[e] = held[e] /\ e # c
  <1>1. Nothing \in [key : Keys, data : Data \union {NULL}]
    BY DEF Nothing, ResourceAssumption
  <1> QED
    BY <1>1 DEF TypeOK

LEMMA GiveBackSafe ==
    ASSUME ResourceAssumption, IInv, NEW c \in Clients, GiveBack(c)
    PROVE  IInv'
  <1>1. TypeOK /\ OneSlotPerKey /\ HoldersKeepTheirs
    BY DEF IInv
  <1>2. held[c] # Nothing /\ held' = [held EXCEPT ![c] = Nothing] /\ call' \in Calls
    BY DEF GiveBack, Calls
  <1>3. /\ held' \in [Clients -> [key : Keys, data : Data \union {NULL}]]
        /\ \A e \in Clients : held'[e] # Nothing => held'[e] = held[e] /\ e # c
    BY <1>1, <1>2, StopsUsing
  <1>4. \A e \in Clients : e # c => held[e].data # held[c].data
    BY DEF GiveBack, UsedBy
  <1>5. PICK s \in Slots : busy[s] /\ key[s] = held[c].key /\ data[s] = held[c].data
    BY <1>1, <1>2 DEF HoldersKeepTheirs
  <1>6. Frees(s)
    <2>1. CASE mc_resource_release(held[c].data)
      <3>1. {i \in Slots : data[i] = held[c].data} = {s}
        BY <1>5 DEF ResourceAssumption
      <3> QED
        BY <2>1, <3>1, VacateCases DEF mc_resource_release
    <2>2. CASE mc_resource_release_key(held[c].key)
      <3>1. Holding(held[c].key) = {s}
        BY <1>1, <1>5 DEF Holding, OneSlotPerKey
      <3> QED
        BY <2>2, <3>1, VacateCases DEF mc_resource_release_key
    <2> QED
      BY <2>1, <2>2 DEF GiveBack
  <1>7. \A e \in Clients : held'[e] # Nothing => held'[e] = held[e] /\ held[e].data # data[s]
    BY <1>3, <1>4, <1>5
  <1> QED
    BY <1>2, <1>3, <1>6, <1>7, FreesSafe

LEMMA SweepSafe ==
    ASSUME ResourceAssumption, IInv, Sweep
    PROVE  IInv'
  <1>1. TypeOK /\ OneSlotPerKey /\ HoldersKeepTheirs
    BY DEF IInv
  <1>2. /\ held' = held /\ held' \in [Clients -> [key : Keys, data : Data \union {NULL}]]
        /\ ret \in Data \union {NULL} /\ call' \in Calls
    BY <1>1 DEF Sweep, TypeOK, Calls
  <1>3. ASSUME UNCHANGED <<pool, ret>> PROVE IInv'
    BY <1>2, <1>3, IdleSafe DEF pool
  <1>4. ASSUME NEW d \in Data, UsedBy(d) = {}, mc_resource_release(d) PROVE IInv'
    <2> DEFINE S == {i \in Slots : data[i] = d}
    <2>1. Vacate(S) /\ S \in SUBSET Slots
      BY <1>4 DEF mc_resource_release
    <2>2. ASSUME NEW i \in S, Frees(i) PROVE IInv'
      <3>1. \A e \in Clients : held[e].data # data[i]
        BY <1>4, <2>2 DEF UsedBy
      <3> QED
        BY <1>2, <2>2, <3>1, FreesSafe
    <2> QED
      BY <1>3, <2>1, <2>2, VacateCases
  <1>5. ASSUME NEW k \in Keys, \A c \in Clients : held[c] = Nothing \/ held[c].key # k,
               mc_resource_release_key(k)
        PROVE IInv'
    <2>1. Vacate(Holding(k)) /\ Holding(k) \in SUBSET Slots
      BY <1>5 DEF mc_resource_release_key, Holding
    <2>2. ASSUME NEW i \in Holding(k), Frees(i) PROVE IInv'
      <3>1. i \in Slots /\ busy[i] /\ key[i] = k
        BY DEF Holding
      <3>2. ASSUME NEW e \in Clients, held[e] # Nothing PROVE held[e].data # data[i]
        <4>1. PICK j \in Slots : key[j] = held[e].key /\ data[j] = held[e].data
          BY <1>1, <3>2 DEF HoldersKeepTheirs
        <4>2. j # i
          BY <1>5, <3>1, <3>2, <4>1
        <4> QED
          BY <3>1, <4>1, <4>2 DEF ResourceAssumption
      <3> QED
        BY <1>2, <2>2, <3>1, <3>2, FreesSafe
    <2> QED
      BY <1>3, <2>1, <2>2, VacateCases
  <1> QED
    BY <1>4, <1>5 DEF Sweep

LEMMA StepSafe == ResourceAssumption /\ IInv /\ [Next]_vars => IInv'
  <1> SUFFICES ASSUME ResourceAssumption, IInv, [Next]_vars PROVE IInv'
    OBVIOUS
  <1>0. TypeOK
    BY DEF IInv
  <1>1. ASSUME NEW c \in Clients, NEW k \in Keys, Acquire(c, k) PROVE IInv'
    BY <1>1, AcquireSafe
  <1>2. ASSUME NEW c \in Clients, GiveBack(c) PROVE IInv'
    BY <1>2, GiveBackSafe
  <1>3. ASSUME NEW c \in Clients, Leave(c) PROVE IInv'
    <2>1. UNCHANGED <<pool, call>> /\ ret' = ret /\ held' = [held EXCEPT ![c] = Nothing]
      BY <1>3 DEF Leave, pool
    <2> QED
      BY <1>0, <2>1, StopsUsing, IdleSafe DEF TypeOK
  <1>4. ASSUME NEW k \in Keys, Look(k) PROVE IInv'
    <2>1. UNCHANGED pool /\ held' = held /\ Finds(k) /\ call' \in Calls
      BY <1>4, GetFinds DEF Look, Calls
    <2>2. ret' \in Data \union {NULL}
      BY <2>1 DEF Finds, Holding, ResourceAssumption
    <2> QED
      BY <1>0, <2>1, <2>2, IdleSafe DEF TypeOK
  <1>5. CASE Sweep
    BY <1>5, SweepSafe
  <1>6. CASE UNCHANGED vars
    BY <1>0, <1>6, IdleSafe DEF vars, TypeOK
  <1> QED
    BY <1>1, <1>2, <1>3, <1>4, <1>5, <1>6 DEF Next

LEMMA InitSafe == ResourceAssumption /\ Init => IInv
  BY DEF ResourceAssumption, Init, IInv, TypeOK, OneSlotPerKey, HoldersKeepTheirs, Nothing, Calls

\* For every pool and any clients that give back only what nobody else uses: a
\* key has one slot, and a client keeps the resource it was given until it
\* gives it back itself (resource.c:5-66).
THEOREM ResourceSafe == Spec => [](TypeOK /\ OneSlotPerKey /\ HoldersKeepTheirs)
  <1>1. Init => IInv
    BY InitSafe, ResourceAssumption
  <1>2. IInv /\ [Next]_vars => IInv'
    BY StepSafe, ResourceAssumption
  <1> QED
    BY <1>1, <1>2, PTL DEF Spec, IInv

\* What a call returns is a resource of the pool or NULL (resource.c:5-66).
COROLLARY ResourceTyped == Spec => []TypeOK
  BY ResourceSafe, PTL

\* No two busy slots have one key, though released slots keep theirs and
\* acquire stops at the first slot that suits (resource.c:16-41).
COROLLARY ResourceUnique == Spec => []OneSlotPerKey
  BY ResourceSafe, PTL

-----------------------------------------------------------------------------
(* The table of leases                                                     *)

\* With one slot per key, the lease of a key is the resource of its slot.
LeaseRight ==
    \A k \in Keys :
        /\ Holding(k) = {} => lease[k] = NULL
        /\ \A i \in Slots : busy[i] /\ key[i] = k => lease[k] = data[i]

LEMMA LeaseIsRight == OneSlotPerKey => LeaseRight
  <1> SUFFICES ASSUME OneSlotPerKey, NEW k \in Keys
               PROVE  /\ Holding(k) = {} => lease[k] = NULL
                      /\ \A i \in Slots : busy[i] /\ key[i] = k => lease[k] = data[i]
    BY DEF LeaseRight
  <1>1. Holding(k) = {} => lease[k] = NULL
    BY DEF lease
  <1>2. ASSUME NEW i \in Slots, busy[i], key[i] = k PROVE lease[k] = data[i]
    <2>1. Holding(k) = {i}
      BY <1>2 DEF Holding, OneSlotPerKey
    <2>2. (CHOOSE j \in Holding(k) : TRUE) = i
      BY <2>1
    <2> QED
      BY <2>1, <2>2 DEF lease
  <1> QED
    BY <1>1, <1>2

\* The same of the next state.
LEMMA LeaseIsRightNext == OneSlotPerKey' => LeaseRight'
  BY LeaseIsRight, PTL

LeaseTotal == lease = [k \in Keys |-> lease[k]]

LEMMA LeaseIsFunction == LeaseTotal
  BY DEF LeaseTotal, lease

LEMMA LeaseIsFunctionNext == LeaseTotal'
  BY LeaseIsFunction, PTL

\* A key with a lease has a busy slot.
LEMMA LeaseHasSlot ==
    ASSUME ResourceAssumption, TypeOK, LeaseRight, NEW k \in Keys, lease[k] # NULL
    PROVE  \E i \in Slots : busy[i] /\ key[i] = k /\ lease[k] = data[i]
  BY DEF LeaseRight, Holding

LEMMA ClaimGrants ==
    ASSUME ResourceAssumption, TypeOK, OneSlotPerKey, LeaseRight, LeaseRight',
           NEW i \in Slots, NEW k \in Keys, Claims(i, k), ret' = data[i],
           call' = "acquire"
    PROVE  Leases!Grant(k)
  <1>1. /\ busy'[i] /\ key'[i] = k
        /\ \A j \in Slots : busy[j] => j # i /\ busy'[j] /\ key'[j] = key[j]
        /\ \A j \in Slots : busy'[j] => j = i \/ (busy[j] /\ key'[j] = key[j])
    BY ClaimsKeeps
  <1>2. lease[k] = NULL
    BY DEF Claims, LeaseRight
  <1>3. data[i] \in Data
    BY DEF ResourceAssumption
  <1>4. \A j \in Keys : lease[j] # data[i]
    <2> SUFFICES ASSUME NEW j \in Keys, lease[j] = data[i] PROVE FALSE
      OBVIOUS
    <2>1. lease[j] # NULL
      BY <1>3 DEF ResourceAssumption
    <2>2. PICK m \in Slots : busy[m] /\ lease[j] = data[m]
      BY <2>1, LeaseHasSlot
    <2>3. m = i
      BY <2>2 DEF ResourceAssumption
    <2> QED
      BY <2>2, <2>3 DEF Claims
  <1>5. ASSUME NEW j \in Keys PROVE lease'[j] = IF j = k THEN data[i] ELSE lease[j]
    <2>1. CASE j = k
      BY <1>1, <2>1 DEF LeaseRight
    <2>2. CASE j # k /\ Holding(j) = {}
      <3>1. \A m \in Slots : ~(busy[m] /\ key[m] = j)
        BY <2>2 DEF Holding
      <3>2. Holding(j)' = {}
        BY <1>1, <2>2, <3>1 DEF Holding
      <3> QED
        BY <2>2, <3>2 DEF LeaseRight
    <2>3. CASE j # k /\ Holding(j) # {}
      <3>1. PICK m \in Slots : busy[m] /\ key[m] = j
        BY <2>3 DEF Holding
      <3>2. busy'[m] /\ key'[m] = j
        BY <1>1, <3>1
      <3>3. lease'[j] = data[m] /\ lease[j] = data[m]
        BY <3>1, <3>2 DEF LeaseRight
      <3> QED
        BY <2>3, <3>3
    <2> QED
      BY <2>1, <2>2, <2>3
  <1>6. lease' = [lease EXCEPT ![k] = data[i]]
    BY <1>5, LeaseIsFunction, LeaseIsFunctionNext DEF LeaseTotal
  <1>7. data[i] \in Data \ Leases!Taken
    BY <1>3, <1>4 DEF Leases!Taken
  <1> QED
    BY <1>2, <1>6, <1>7 DEF Leases!Grant

LEMMA FreesReleases ==
    ASSUME ResourceAssumption, TypeOK, OneSlotPerKey, LeaseRight, LeaseRight',
           NEW i \in Slots, Frees(i), call' = "release"
    PROVE  Leases!Release(data[i])
  <1>1. ~busy'[i] /\ \A j \in Slots : j # i => (busy'[j] <=> busy[j])
    BY FreesKeeps
  <1>2. key' = key /\ ret' = ret
    BY DEF Frees
  <1>3. ASSUME NEW j \in Keys PROVE lease'[j] = IF lease[j] = data[i] THEN NULL ELSE lease[j]
    <2>0. data[i] # NULL
      BY DEF ResourceAssumption
    <2>1. CASE \E m \in Slots : m # i /\ busy[m] /\ key[m] = j
      <3>1. PICK m \in Slots : m # i /\ busy[m] /\ key[m] = j
        BY <2>1
      <3>2. busy'[m] /\ key'[m] = j
        BY <1>1, <1>2, <3>1
      <3>3. lease'[j] = data[m] /\ lease[j] = data[m]
        BY <3>1, <3>2 DEF LeaseRight
      <3>4. data[m] # data[i]
        BY <3>1 DEF ResourceAssumption
      <3> QED
        BY <3>3, <3>4
    <2>2. CASE \A m \in Slots : m # i => ~(busy[m] /\ key[m] = j)
      <3>1. Holding(j)' = {}
        BY <1>1, <1>2, <2>2 DEF Holding
      <3>2. lease'[j] = NULL
        BY <3>1 DEF LeaseRight
      <3>3. CASE busy[i] /\ key[i] = j
        BY <3>2, <3>3 DEF LeaseRight
      <3>4. CASE ~(busy[i] /\ key[i] = j)
        <4>1. Holding(j) = {}
          BY <2>2, <3>4 DEF Holding
        <4>2. lease[j] = NULL
          BY <4>1 DEF LeaseRight
        <4> QED
          BY <2>0, <3>2, <4>2
      <3> QED
        BY <3>3, <3>4
    <2> QED
      BY <2>1, <2>2
  <1>4. lease' = [k \in Keys |-> IF lease[k] = data[i] THEN NULL ELSE lease[k]]
    BY <1>3 DEF lease
  <1> QED
    BY <1>2, <1>4 DEF Leases!Release

LEMMA PoolUnchanged == ASSUME UNCHANGED pool PROVE UNCHANGED lease
  BY DEF pool, lease, Holding

LEMMA FoundFinds ==
    ASSUME ResourceAssumption, LeaseRight, NEW k \in Keys, NEW i \in Holding(k),
           ret' = data[i], UNCHANGED pool, call' = "acquire"
    PROVE  Leases!Find(k)
  <1>1. i \in Slots /\ lease[k] = data[i]
    BY DEF Holding, LeaseRight
  <1>2. data[i] # NULL
    BY <1>1 DEF ResourceAssumption
  <1> QED
    BY <1>1, <1>2, PoolUnchanged DEF Leases!Find

LEMMA GetLooks ==
    ASSUME LeaseRight, NEW k \in Keys, Finds(k), UNCHANGED pool, call' = "get"
    PROVE  Leases!Look(k)
  <1>1. ret' = lease[k]
    BY DEF Finds, Holding, LeaseRight
  <1> QED
    BY <1>1, PoolUnchanged DEF Leases!Look

LEMMA FullRefuses ==
    ASSUME ResourceAssumption, TypeOK, LeaseRight, NEW k \in Keys,
           Holding(k) = {}, Free = {}, ret' = NULL, UNCHANGED pool,
           call' = "acquire"
    PROVE  Leases!Refuse(k)
  <1>1. lease[k] = NULL
    BY DEF LeaseRight
  <1>2. ASSUME NEW d \in Data PROVE d \in Leases!Taken
    <2>1. PICK i \in Slots : data[i] = d
      BY DEF ResourceAssumption
    <2>2. busy[i] /\ key[i] \in Keys
      BY DEF Free, TypeOK
    <2>3. lease[key[i]] = data[i]
      <3>1. \A j \in Slots : busy[j] /\ key[j] = key[i] => lease[key[i]] = data[j]
        BY <2>2 DEF LeaseRight
      <3> QED
        BY <2>1, <2>2, <3>1
    <2>4. d # NULL
      BY DEF ResourceAssumption
    <2> QED
      BY <2>1, <2>2, <2>3, <2>4 DEF Leases!Taken
  <1> QED
    BY <1>1, <1>2, PoolUnchanged DEF Leases!Refuse

\* Giving back: a release of one resource, or of NULL when there is none.
LEMMA IdleReleases ==
    ASSUME ResourceAssumption, LeaseRight, UNCHANGED <<pool, ret>>, call' = "release"
    PROVE  Leases!Release(NULL)
  <1>1. lease' = lease
    BY PoolUnchanged
  <1>2. lease = [k \in Keys |-> IF lease[k] = NULL THEN NULL ELSE lease[k]]
    BY LeaseIsFunction DEF LeaseTotal
  <1> QED
    BY <1>1, <1>2 DEF Leases!Release

LEMMA VacateReleases ==
    ASSUME ResourceAssumption, TypeOK, OneSlotPerKey, LeaseRight, LeaseRight',
           NEW S \in SUBSET Slots, Vacate(S), call' = "release"
    PROVE  Leases!Next
  <1>1. CASE UNCHANGED <<pool, ret>>
    BY <1>1, IdleReleases DEF Leases!Next
  <1>2. ASSUME NEW i \in S, Frees(i) PROVE Leases!Next
    <2>1. data[i] \in Data
      BY DEF ResourceAssumption
    <2> QED
      BY <1>2, <2>1, FreesReleases DEF Leases!Next
  <1> QED
    BY <1>1, <1>2, VacateCases

LEMMA StepImplements ==
    ASSUME ResourceAssumption, IInv, IInv', [Next]_vars
    PROVE  [Leases!Next]_(Leases!vars)
  <1>1. TypeOK /\ OneSlotPerKey /\ LeaseRight /\ LeaseRight'
    BY LeaseIsRight, LeaseIsRightNext DEF IInv
  <1>2. ASSUME NEW c \in Clients, NEW k \in Keys, Acquire(c, k) PROVE Leases!Next
    <2>1. mc_resource_acquire(k) /\ call' = "acquire"
      BY <1>2 DEF Acquire
    <2>2. ASSUME NEW i \in Slots, Claims(i, k), ret' = data[i] PROVE Leases!Next
      BY <1>1, <2>1, <2>2, ClaimGrants DEF Leases!Next
    <2>3. ASSUME NEW i \in Holding(k), ret' = data[i], UNCHANGED pool PROVE Leases!Next
      BY <1>1, <2>1, <2>3, FoundFinds DEF Leases!Next
    <2>4. ASSUME Holding(k) = {}, Free = {}, ret' = NULL, UNCHANGED pool PROVE Leases!Next
      BY <1>1, <2>1, <2>4, FullRefuses DEF Leases!Next
    <2> QED
      BY <2>1, <2>2, <2>3, <2>4, AcquireCases
  <1>3. ASSUME NEW d, mc_resource_release(d), call' = "release" PROVE Leases!Next
    BY <1>1, <1>3, VacateReleases DEF mc_resource_release
  <1>4. ASSUME NEW k, mc_resource_release_key(k), call' = "release" PROVE Leases!Next
    BY <1>1, <1>4, VacateReleases DEF mc_resource_release_key, Holding
  <1>5. ASSUME NEW k \in Keys, Look(k) PROVE Leases!Next
    BY <1>1, <1>5, GetFinds, GetLooks DEF Look, Leases!Next
  <1>6. ASSUME NEW c \in Clients, Leave(c) PROVE UNCHANGED Leases!vars
    BY <1>6, PoolUnchanged DEF Leave, pool, Leases!vars
  <1>7. CASE UNCHANGED vars
    BY <1>7, PoolUnchanged DEF vars, Leases!vars
  <1> QED
    BY <1>2, <1>3, <1>4, <1>5, <1>6, <1>7 DEF Next, GiveBack, Sweep

\* The slots, flags and stale keys implement the table of leases
\* (resource.h:36-52).
THEOREM ResourceImplements == Spec => ImplementsLeases
  <1>1. Init => Leases!Init
    BY DEF Init, Leases!Init, lease, Holding
  <1>2. IInv /\ IInv' /\ [Next]_vars => [Leases!Next]_(Leases!vars)
    BY StepImplements, ResourceAssumption
  <1>3. Spec => []IInv
    BY ResourceSafe, PTL DEF IInv
  <1> QED
    BY <1>1, <1>2, <1>3, PTL DEF Spec, ImplementsLeases, Leases!Spec
=============================================================================
