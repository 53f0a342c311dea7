------------------------------ MODULE Vectors ------------------------------
(***************************************************************************)
(* src/core/device/analog_vector3.c: a vector is three analog devices that *)
(* share one config and one driver context, and a call on it is three      *)
(* calls on them, the first error ending it.  Between two axes an          *)
(* interrupt may move a value or fail the driver; the application itself   *)
(* waits for its call to return.                                           *)
(***************************************************************************)
EXTENDS Devices

VARIABLES
    call,   \* the set or get under way: its vector, next axis, and value
    before, \* history: the values of the devices when it began
    moved   \* history: the devices that moved by themselves since

vars == <<dev, reply, call, before, moved>>

NoCall == [op |-> "none", vector |-> "", axis |-> 0, value |-> <<>>]

AxesOf(v) == {Axes[v][i] : i \in 1..3}

ASSUME VectorsAssumption == \A v \in Vectors : v \in STRING

-----------------------------------------------------------------------------
(* The calls of analog_vector3.c                                           *)

mc_analog_vector3_init(v, is_read_only) ==
    LET InitAxis(D, i) == mc_analog_init(D, Axes[v][i], is_read_only)
    IN  Did("init", [dev |-> InitAxis(InitAxis(InitAxis(dev, 1), 2), 3), status |-> "OK"])

mc_analog_vector3_set_read_only(v, enable) ==
    Did("read_only",
        [dev |-> [dev EXCEPT !.read_only =
                    [c \in Contexts |-> IF \E d \in AxesOf(v) : Context(d) = c
                                        THEN enable ELSE @[c]]],
         status |-> "OK"])

Begin(op, v, value) ==
    /\ call' = [op |-> op, vector |-> v, axis |-> 1, value |-> value]
    /\ before' = dev.value
    /\ moved' = {}
    /\ reply' = Quiet
    /\ UNCHANGED dev

mc_analog_vector3_set_value(v, value) == Begin("set", v, value)
mc_analog_vector3_get_value(v) == Begin("get", v, <<>>)

Ends(status, value) ==
    /\ reply' = Answer(call.op, status, value, "nobody")
    /\ call' = NoCall

SetAxis ==
    LET i == call.axis
        set == mc_analog_set_value(dev, Axes[call.vector][i], call.value[i])
    IN  /\ call.op = "set"
        /\ dev' = set.dev
        /\ \/ set.status # "OK" /\ Ends(set.status, <<>>)
           \/ set.status = "OK" /\ i = 3 /\ Ends("OK", <<>>)
           \/ set.status = "OK" /\ i < 3
              /\ call' = [call EXCEPT !.axis = i + 1]
              /\ reply' = Answer("axis", "OK", <<>>, "nobody")
        /\ UNCHANGED <<before, moved>>

\* The caller's vector is written when all three axes have been read.
GetAxis ==
    LET i == call.axis
        got == mc_analog_get_value(dev, Axes[call.vector][i])
        value == call.value \o got.value
    IN  /\ call.op = "get"
        /\ \/ got.status # "OK" /\ Ends(got.status, <<>>)
           \/ got.status = "OK" /\ i = 3 /\ Ends("OK", value)
           \/ got.status = "OK" /\ i < 3
              /\ call' = [call EXCEPT !.axis = i + 1, !.value = value]
              /\ reply' = Answer("axis", "OK", <<>>, "nobody")
        /\ UNCHANGED <<dev, before, moved>>

-----------------------------------------------------------------------------

\* An interrupt, between calls or inside one.
Interrupt ==
    /\ Changes
    /\ moved' = IF call = NoCall THEN {}
                ELSE moved \cup {d \in Devices : dev'.value[d] # dev.value[d]}
    /\ UNCHANGED <<call, before>>

Application ==
    /\ call = NoCall
    /\ \/ /\ \/ Calls
             \/ \E v \in Vectors, b \in BOOLEAN :
                  \/ mc_analog_vector3_init(v, b)
                  \/ mc_analog_vector3_set_read_only(v, b)
          /\ call' = NoCall
          /\ before' = [d \in Devices |-> 0]
          /\ moved' = {}
       \/ \E v \in Vectors, w \in [1..3 -> Levels] :
            mc_analog_vector3_set_value(v, w)
       \/ \E v \in Vectors : mc_analog_vector3_get_value(v)

Init ==
    /\ DevicesInit
    /\ call = NoCall
    /\ before = [d \in Devices |-> 0]
    /\ moved = {}

Next == Application \/ SetAxis \/ GetAxis \/ Interrupt

Spec == Init /\ [][Next]_vars

-----------------------------------------------------------------------------
(* Properties                                                              *)

TypeOK ==
    /\ dev \in DeviceStates
    /\ \A d \in Digitals : dev.value[d] \in {0, 1}
    /\ reply.status \in Faults \cup {"OK", Protected}
    /\ call # NoCall => call.vector \in Vectors /\ call.axis \in 1..3
    /\ moved \subseteq Devices

\* No way of writing, a toggle and a vector among them, gets past the
\* read-only bit: a locked device changes by itself or by a new init.
LockedIsKept ==
    [][ \A d \in Devices :
          dev.read_only[Context(d)] /\ reply'.op \notin {"none", "init"}
          => dev'.value[d] = dev.value[d] ]_vars

\* What a vector write reports is what became of the vector, but for the axes
\* that moved by themselves meanwhile: OK, all of it was written; write
\* protected, none of it, although the axes are asked one by one; any other
\* error, the axes up to the one that failed.
VectorStatusIsTrue ==
    [][ call.op = "set" /\ call' = NoCall =>
          LET written == CASE reply'.status = "OK" -> 3
                           [] reply'.status = Protected -> 0
                           [] OTHER -> call.axis
          IN  \A i \in 1..3 :
                LET d == Axes[call.vector][i]
                IN  d \notin moved =>
                      dev'.value[d] = IF i <= written THEN call.value[i]
                                      ELSE before[d] ]_vars
=============================================================================
