----------------------------- MODULE MCVectors -----------------------------
\* One digital device, and one vector whose second axis the application also
\* locks and unlocks as a device of its own.
EXTENDS Vectors

VectorAxes == [v \in {"vec"} |-> <<"ax", "ay", "az">>]
=============================================================================
