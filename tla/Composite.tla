----------------------------- MODULE Composite -----------------------------
(***************************************************************************)
(* src/core/system/core.c and composite.c: systems of systems.  A command  *)
(* carries an id local to the system it is sent to; a composite counts     *)
(* what each child offers, in order, to find the child and its local id.   *)
(* Counts follow the read-only bits, so ids move when a bit does.  A       *)
(* composite may hold composites: analog_vector3_system is one.            *)
(***************************************************************************)
EXTENDS LeafSystems, SequencesExt

CONSTANTS
    Composites,
    Kids,       \* driver->systems of each, as a sequence
    Tops,       \* the systems commands are sent to
    MaxSent     \* bound on the ids sent

Systems == Leaves \cup Composites
Byte == 256     \* ids and counts are uint8_t
Ids == 0..(Byte - 1)
None == [system |-> Nobody, id |-> 0]

\* A system is inside another no more than composites go.
ASSUME CompositeAssumption ==
    /\ Composites \cap Leaves = {} /\ Nobody \notin Composites
    /\ IsFiniteSet(Composites)
    /\ Kids \in [Composites -> Seq(Systems)]
    /\ \E depth \in [Systems -> 0..Cardinality(Composites)] :
         \A c \in Composites : \A i \in DOMAIN Kids[c] : depth[Kids[c][i]] < depth[c]
    /\ Tops \subseteq Systems
    /\ MaxSent \in Ids

-----------------------------------------------------------------------------
(* What a system offers, and who answers to an id                          *)

\* Sums(counts)[n]: what the first n children offer.
Sums(counts) ==
    LET sum[n \in 0..Len(counts)] == IF n = 0 THEN 0 ELSE sum[n - 1] + counts[n]
    IN  sum

Total(counts) == Sums(counts)[Len(counts)] % Byte

\* What a system offers depends on the read-only bits R and nothing else.
Bits == [Contexts -> BOOLEAN]
Members == Types \cup {"alias"}

\* Count[R][type][s]: how many members of a type s offers, or how many aliases.
Count ==
    [R \in Bits |-> [type \in Members |->
       LET count[s \in Systems] ==
             IF s \in Leaves THEN LeafCount(R, s, type)
             ELSE Total([i \in DOMAIN Kids[s] |-> count[Kids[s][i]]])
       IN  [s \in Systems |-> count[s]]]]

KidCounts(R, type, s) == [i \in DOMAIN Kids[s] |-> Count[R][type][Kids[s][i]]]

\* What a composite's children offer fits in the uint8_t that it counts with.
\* The code does not check it; where it does not hold, the ids past 255 are lost
\* and an alias may name an id that its system does not offer.
TreeFits ==
    \A R \in Bits, type \in Members, c \in Composites :
        Sums(KidCounts(R, type, c))[Len(KidCounts(R, type, c))] < Byte

\* Mutant: the last id of a child goes to the next one as well.
RouteInclusive(counts, id) ==
    LET here == {i \in DOMAIN counts : id <= Sums(counts)[i]}
    IN  IF here = {} THEN [child |-> 0, id |-> 0]
        ELSE [child |-> Min(here), id |-> id - Sums(counts)[Min(here) - 1]]

\* Mutant: the children are asked from the last to the first.
RouteBackwards(counts, id) ==
    LET after(i) == Sums(counts)[Len(counts)] - Sums(counts)[i]
        here == {i \in DOMAIN counts : id < after(i - 1)}
    IN  IF here = {} THEN [child |-> 0, id |-> 0]
        ELSE [child |-> Max(here), id |-> id - after(Max(here))]

\* The scan over the children: the first whose count exceeds what is left of
\* the id once the counts before it are taken off.
Route(counts, id) ==
    LET here == {i \in DOMAIN counts : id - Sums(counts)[i - 1] < counts[i]}
    IN  IF here = {} THEN [child |-> 0, id |-> 0]
        ELSE [child |-> Min(here), id |-> id - Sums(counts)[Min(here) - 1]]

\* Dispatch[R][type][s][id]: the leaf that id reaches, and its local id.
Dispatch ==
    [R \in Bits |-> [type \in Members |->
       LET to[s \in Systems] ==
             [id \in Ids |->
                IF s \in Leaves THEN [system |-> s, id |-> id]
                ELSE LET there == Route(KidCounts(R, type, s), id)
                     IN  IF there.child = 0 THEN None
                         ELSE to[Kids[s][there.child]][there.id]]
       IN  [s \in Systems |-> [id \in Ids |-> to[s][id]]]]]

\* Mutant: the offset includes the child that answers.
OffsetPast(R, type, s, child) == Sums(KidCounts(R, type, s))[child] % Byte

Offset(R, type, s, child) == Sums(KidCounts(R, type, s))[child - 1] % Byte

\* mc_composite_get_alias[R][s][id]: the id of the command is moved past what
\* the earlier children offer of its type.
mc_composite_get_alias ==
    [R \in Bits |->
       LET alias[s \in Systems] ==
             [id \in Ids |->
                IF s \in Leaves
                THEN IF id < LeafCount(R, s, "alias") THEN leaf_get_alias(s, id)
                     ELSE Info("none", {})
                ELSE LET there == Route(KidCounts(R, "alias", s), id)
                         info == alias[Kids[s][there.child]][there.id]
                     IN  IF there.child = 0 THEN Info("none", {})
                         ELSE [info EXCEPT !.id =
                                 (@ + Offset(R, info.type, s, there.child)) % Byte]]
       IN  [s \in Systems |-> [id \in Ids |-> alias[s][id]]]]

\* The leaves of each system from first to last, which is also the order
\* mc_composite_init goes through them.
LeafOrder ==
    LET order[s \in Systems] ==
          IF s \in Leaves THEN <<s>>
          ELSE FlattenSeq([i \in DOMAIN Kids[s] |-> order[Kids[s][i]]])
    IN  [s \in Systems |-> order[s]]

-----------------------------------------------------------------------------
(* Commands: the guard of core.c, then the dispatch                        *)

Reaches(type, s, id) ==
    /\ id < Count[dev.read_only][type][s]
    /\ Dispatch[dev.read_only][type][s][id] # None

\* The leaf a command goes to.
To(type, s, id) == Dispatch[dev.read_only][type][s][id].system

mc_sys_invoke(s, id) ==
    \/ /\ s \in AnalogSystems       \* its driver has no invoke
       /\ Refused("invoke", "NOT_SUPPORTED")
    \/ /\ s \notin AnalogSystems
       /\ ~Reaches("f", s, id)
       /\ Refused("invoke", "INVALID_ARGS")
    \/ /\ s \notin AnalogSystems
       /\ Reaches("f", s, id)
       /\ InvokeAt(To("f", s, id))

mc_sys_write_input(s, id, val) ==
    \/ /\ ~Reaches("x", s, id)
       /\ Refused("write", "INVALID_ARGS")
    \/ /\ Reaches("x", s, id)
       /\ WriteAt(To("x", s, id), val)

mc_sys_read_input(s, id) ==
    \/ /\ ~Reaches("x", s, id)
       /\ Refused("read", "INVALID_ARGS")
    \/ /\ Reaches("x", s, id)
       /\ ReadInputAt(To("x", s, id))

mc_sys_read_output(s, id) ==
    \/ /\ ~Reaches("y", s, id)
       /\ Refused("read", "INVALID_ARGS")
    \/ /\ Reaches("y", s, id)
       /\ ReadOutputAt(To("y", s, id))

mc_sys_init(s) == leaf_init(ToSet(LeafOrder[s]))

Commands ==
    /\ pending = Idle
    /\ \E s \in Tops :
        \/ mc_sys_init(s)
        \/ \E id \in 0..MaxSent :
            \/ mc_sys_invoke(s, id)
            \/ \E val \in Numbers : mc_sys_write_input(s, id, val)
            \/ mc_sys_read_input(s, id)
            \/ mc_sys_read_output(s, id)

Next == Commands \/ Toggle \/ Surroundings

Spec == Init /\ [][Next]_vars

-----------------------------------------------------------------------------
(* Properties                                                              *)

TypeOK ==
    /\ dev \in DeviceStates
    /\ target \in [Leaves -> Numbers]
    /\ \A s \in DigitalSystems : target[s] \in {0, 1}
    /\ \A d \in Digitals : dev.value[d] \in {0, 1}
    /\ pending \in [leaf : DigitalSystems \cup {Nobody}, seen : {0, 1}]
    /\ reply.by \in Leaves \cup {Nobody}

\* A command never runs into write protection: what a read-only device would
\* refuse is not offered, so it was refused as an unknown id, before any
\* target changed.  The counts, the scan and the device each see the bit.
InputsAreWritable ==
    /\ reply.op \in {"write", "invoke"} => reply.status # Protected
    /\ pending # Idle => ~dev.read_only[Context(Device[pending.leaf])]

\* An alias names a command of the leaf that offers it: the id it gives goes,
\* through every level, to that leaf.  Three sets of counts have to agree.
AliasesAgree ==
    \A s \in Tops : \A id \in 0..(Count[dev.read_only]["alias"][s] - 1) :
        LET R == dev.read_only
            info == mc_composite_get_alias[R][s][id]
        IN  /\ info.id < Count[R][info.type][s]
            /\ Dispatch[R][info.type][s][info.id] =
                 [system |-> Dispatch[R]["alias"][s][id].system, id |-> 0]

\* A write or a toggle answered OK leaves the target of the system that did
\* it at the value of its device, other systems sharing the device or not;
\* a toggle only if the device did not move between its two reads.
OkMeansApplied ==
    [][ LET s == reply'.by
            raced == /\ reply'.op = "invoke"
                     /\ dev.value[Device[s]] # pending.seen
        IN  /\ reply'.op \in {"write", "invoke"}
            /\ reply'.status = "OK"
            /\ ~raced
            => target'[s] = dev'.value[Device[s]] ]_vars

IdsOf(R, type, s, leaf) ==
    {id \in 0..(Count[R][type][s] - 1) : Dispatch[R][type][s][id].system = leaf}

\* No leaf is twice under a system that commands are sent to.  The code does not
\* check it; a leaf that is there twice has ids in two places.
LeavesAreDistinct ==
    \A s \in Tops : \A i, j \in DOMAIN LeafOrder[s] :
        LeafOrder[s][i] = LeafOrder[s][j] => i = j

\* Setting a read-only bit moves only the ids behind the device: an id a
\* client keeps stays good as long as no earlier device, nor its own, changes.
IdsShiftOnlyBehind ==
    [][ LET R == dev.read_only
        IN  R # R' =>
              \A s \in Tops, type \in Types : \A i \in DOMAIN LeafOrder[s] :
                (\A j \in 1..i : LET c == Context(Device[LeafOrder[s][j]])
                                 IN  R[c] = R'[c])
                => IdsOf(R, type, s, LeafOrder[s][i]) =
                     IdsOf(R', type, s, LeafOrder[s][i]) ]_vars

\* A tree of systems behaves as the flat table of its leaves' members.
Flat == INSTANCE FlatSystem
ImplementsFlat == Flat!Spec
=============================================================================
