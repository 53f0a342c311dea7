----------------------------- MODULE FlatSystem -----------------------------
(***************************************************************************)
(* What a composite promises: it is one system, whose functions, inputs    *)
(* and outputs are those of its leaves put one after another in the order  *)
(* of the leaves.  A command goes to the leaf at that place of the table   *)
(* and to no other; an id past the end is refused.                         *)
(***************************************************************************)
EXTENDS LeafSystems, SequencesExt

CONSTANTS
    Tops,       \* the systems commands are sent to
    LeafOrder,  \* their leaves in order
    MaxSent

\* The leaf of every member of a type, in order of the ids.
Table(R, type, s) ==
    FlattenSeq([i \in DOMAIN LeafOrder[s] |->
                  [j \in 1..LeafCount(R, LeafOrder[s][i], type) |->
                     LeafOrder[s][i]]])

\* An analog system sent a command directly says that it has no functions.
NoFunctions(s) == s \in AnalogSystems

Command(op, type, s, id, Do(_)) ==
    LET table == Table(dev.read_only, type, s)
    IN  \/ /\ op = "invoke" /\ NoFunctions(s)
           /\ Refused(op, "NOT_SUPPORTED")
        \/ /\ ~(op = "invoke" /\ NoFunctions(s))
           /\ id >= Len(table)
           /\ Refused(op, "INVALID_ARGS")
        \/ /\ id < Len(table)
           /\ Do(table[id + 1])

Next ==
    \/ \E s \in Tops, id \in 0..MaxSent :
        /\ pending = Idle
        /\ \/ \E val \in Numbers :
                Command("write", "x", s, id, LAMBDA leaf : WriteAt(leaf, val))
           \/ Command("read", "x", s, id, ReadInputAt)
           \/ Command("read", "y", s, id, ReadOutputAt)
           \/ Command("invoke", "f", s, id, InvokeAt)
    \/ Toggle
    \/ \E s \in Tops : pending = Idle /\ leaf_init(ToSet(LeafOrder[s]))
    \/ Surroundings

Spec == Init /\ [][Next]_vars
=============================================================================
