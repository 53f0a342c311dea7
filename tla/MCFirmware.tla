----------------------------- MODULE MCFirmware -----------------------------
\* A board with one lamp.  The user sends four lines, of which the second does
\* not fit the receive buffer: of "lamp x0 12" is left "lamp x0 1".
EXTENDS Firmware, TLC

ArduinoStates == {{}, {"NO_RESPONSE"}}

Text == <<1, NL, 3, 4, NL, 6, NL, 8, NL>>

Wiring == [s \in {"lamp"} |-> "pin"]
NoTree == [c \in {} |-> <<>>]
NoAxes == [v \in {} |-> <<>>]
LampNames == [s \in {"lamp"} |-> <<"state", "targetState", "turnOn", "turnOff", "toggle">>]
Registered == <<[id |-> 1, name |-> "lamp", system |-> "lamp"]>>

Word(w) == [text |-> w, letter |-> "", number |-> {}, junk |-> FALSE]
Letter(l, n) == [text |-> l \o ToString(n), letter |-> l, number |-> {n}, junk |-> FALSE]
Value(n) == [text |-> ToString(n), letter |-> "", number |-> {n}, junk |-> FALSE]
Line(tokens) == [clear |-> FALSE, help |-> FALSE, tokens |-> tokens, echoed |-> TRUE]

Switch == Line(<<Word("lamp"), Word("toggle")>>)
SetOne == Line(<<Word("lamp"), Letter("x", 0), Value(1)>>)
Dump == Line(<<Word("lamp")>>)
TurnOff == Line(<<Word("lamp"), Word("turnOff")>>)
Noise == Line(<<Word("noise")>>)    \* the rest of a line after a restart

ParseText(message) ==
    CASE message[1] = 1 -> Switch
      [] message[1] = 3 -> SetOne
      [] message[1] = 6 -> Dump
      [] message[1] = 8 -> TurnOff
      [] OTHER -> Noise

UserLines == {Switch, SetOne, Dump, TurnOff, Noise}
=============================================================================
