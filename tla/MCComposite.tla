---------------------------- MODULE MCComposite ----------------------------
\* A board with a lamp and, one level down, an analog system and a second
\* system on the lamp's device.  The analog system also gets commands of its
\* own.
EXTENDS Composite

Wiring ==
    [s \in {"lamp", "spare", "level"} |->
       IF s = "level" THEN "sensor" ELSE "pin"]

Tree == [c \in {"board", "pair"} |->
           IF c = "board" THEN <<"lamp", "pair">> ELSE <<"level", "spare">>]

NoAxes == [v \in {} |-> <<>>]

\* What the theorems on aliases, on the flat table and on ids ask of a tree.
ASSUME BoardFits == TreeFits /\ LeavesAreDistinct
=============================================================================
