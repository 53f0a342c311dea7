----------------------------- MODULE MCConsole -----------------------------
\* A board of two systems on one pin, whose commands have names of their own,
\* and the lines of a user who knows them and makes mistakes.
EXTENDS Console

Wiring == [s \in {"lamp", "spare"} |-> "pin"]
Tree == [c \in {"board"} |-> <<"lamp", "spare">>]
NoAxes == [v \in {} |-> <<>>]

LeafNames ==
    [s \in {"lamp", "spare"} |->
       IF s = "lamp" THEN <<"state", "targetState", "turnOn", "turnOff", "toggle">>
       ELSE <<"state2", "targetState2", "turnOn2", "turnOff2", "toggle2">>]

\* HelpIsTrue is proved for such names.
ASSUME BoardNames == NamesDiffer

Registered == <<[id |-> 1, name |-> "board", system |-> "board"]>>

Word(w) == [text |-> w, letter |-> "", number |-> {}, junk |-> FALSE]
Letter(l, n) == [text |-> l \o ToString(n), letter |-> l, number |-> {n}, junk |-> FALSE]
Value(n) == [text |-> ToString(n), letter |-> "", number |-> {n}, junk |-> FALSE]
Junk(n) == [Value(n) EXCEPT !.text = @ \o "a", !.junk = TRUE]
Line(tokens) == [clear |-> FALSE, help |-> FALSE, tokens |-> tokens, echoed |-> TRUE]
Help(tokens) == [Line(tokens) EXCEPT !.help = TRUE]
Clear(tokens) == [Line(tokens) EXCEPT !.clear = TRUE]

UserLines ==
    { NoLine,                                           \* delimiters only
      Clear(<<Word("clearing")>>),
      Line(<<Word("nobody"), Letter("x", 0)>>),
      Help(<<Word("board")>>),
      Line(<<Letter("s", 257)>>),                       \* s1, and a dump
      Line(<<Word("board"), Word("turnOn2")>>),
      Line(<<Word("board"), Word("toggle"), Value(1), Word("junk")>>),
      Line(<<Word("board"), Letter("f", 1), Word("junk")>>),
      Line(<<Word("board"), Word("toggle2"), Junk(1)>>),  \* the 2nd argument
      Line(<<Word("board"), Letter("x", 0), Junk(2)>>),  \* written as 2
      Line(<<Word("board"), Letter("x", 257), Word("junk")>>),
      Line(<<Word("board"), Letter("x", 1)>>),
      Line(<<Word("board"), Letter("y", 1)>>),
      Line(<<Word("board"), Letter("z", 1)>>) }
=============================================================================
