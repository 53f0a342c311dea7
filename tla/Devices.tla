------------------------------ MODULE Devices ------------------------------
(***************************************************************************)
(* src/core/device: digital and analog devices, with the data-object       *)
(* drivers of the source.  A data object keeps a value and an error in     *)
(* memory that anyone may change: an interrupt that samples a pin, the     *)
(* application.  An analog device may be an axis of a vector (Vectors).    *)
(* Devices are initialized: a call on one that is not asserts.             *)
(***************************************************************************)
EXTENDS Integers, Sequences

CONSTANTS
    Digitals, Analogs,
    Vectors,
    Axes,       \* Axes[v]: the x, y and z of vector v
    Levels,     \* the values of analog devices
    Switched,   \* the devices initialized or locked on their own
    Faults      \* the statuses a driver may fail with: not with Protected,
                \* though a driver of an application could

Devices == Digitals \cup Analogs
Numbers == Levels \cup {0, 1}
Protected == "WRITE_PROTECTED"

ASSUME DevicesAssumption ==
    /\ Digitals \cap Analogs = {} /\ Vectors \cap Devices = {}
    /\ Axes \in [Vectors -> [1..3 -> Analogs]]
    /\ \A v, w \in Vectors, i, j \in 1..3 :
         Axes[v][i] = Axes[w][j] => v = w /\ i = j
    /\ Switched \subseteq Devices
    /\ Levels \subseteq Int
    /\ Faults \cap {"OK", Protected} = {}

\* Mutant: every axis of a vector has a config of its own.
OwnContext(d) == d

\* What holds the read-only bit and the error of a device: its config and its
\* driver's context, of which the three axes of a vector have one between them.
Context(d) ==
    IF \E v \in Vectors, i \in 1..3 : Axes[v][i] = d
    THEN CHOOSE v \in Vectors : \E i \in 1..3 : Axes[v][i] = d
    ELSE d

Contexts == {Context(d) : d \in Devices}

VARIABLES
    dev,    \* value of each device; is_read_only and error of each context
    reply   \* what the last step answered

DeviceStates ==
    [value : [Devices -> Numbers], read_only : [Contexts -> BOOLEAN],
     error : [Contexts -> Faults \cup {"OK"}]]

\* op: the call answered; value: what it returned, one number or three; by:
\* the subsystem that carried it out.
Answer(op, status, value, by) ==
    [op |-> op, status |-> status, value |-> value, by |-> by]

Quiet == Answer("none", "OK", <<>>, "nobody")

-----------------------------------------------------------------------------
(* Calls as functions of a state D of the devices                          *)

\* Mutant: the state is kept as the number given.
DigitalStoreRaw(D, d, state) ==
    [dev |-> [D EXCEPT !.value[d] = state], status |-> D.error[Context(d)]]

\* A bool: anything but zero is 1.
mc_digital_data_object_set_state(D, d, state) ==
    [dev |-> [D EXCEPT !.value[d] = IF state = 0 THEN 0 ELSE 1],
     status |-> D.error[Context(d)]]

mc_analog_data_object_set_value(D, d, value) ==
    [dev |-> [D EXCEPT !.value[d] = value], status |-> D.error[Context(d)]]

Refuse(D, status) == [dev |-> D, status |-> status]

mc_digital_set_state(D, d, state) ==
    IF D.read_only[Context(d)] THEN Refuse(D, Protected)
    ELSE mc_digital_data_object_set_state(D, d, state)

\* Mutant: the read-only bit is not looked at.
AnalogSetUnlocked(D, d, value) == mc_analog_data_object_set_value(D, d, value)

mc_analog_set_value(D, d, value) ==
    IF D.read_only[Context(d)] THEN Refuse(D, Protected)
    ELSE mc_analog_data_object_set_value(D, d, value)

Read(D, d) ==
    LET error == D.error[Context(d)]
    IN  [status |-> error,
         value |-> IF error = "OK" THEN <<D.value[d]>> ELSE <<>>]

mc_digital_get_state(D, d) == Read(D, d)

mc_analog_get_value(D, d) == Read(D, d)

\* The read and the write are one step: a device that moves between the two
\* is left out.  One that moves before them is in the toggle of LeafSystems.
mc_digital_toggle(D, d) ==
    LET current == mc_digital_get_state(D, d)
    IN  IF current.status # "OK" THEN Refuse(D, current.status)
        ELSE mc_digital_set_state(D, d, 1 - current.value[1])

\* The driver's init puts the object at zero with no error.
Initialized(D, d, is_read_only) ==
    [value |-> [D.value EXCEPT ![d] = 0],
     read_only |-> [D.read_only EXCEPT ![Context(d)] = is_read_only],
     error |-> [D.error EXCEPT ![Context(d)] = "OK"]]

mc_digital_init(D, d, is_read_only) == Initialized(D, d, is_read_only)

mc_analog_init(D, d, is_read_only) == Initialized(D, d, is_read_only)

-----------------------------------------------------------------------------
(* The application's own calls on devices, and the world                   *)

Did(op, call) ==
    /\ dev' = call.dev
    /\ reply' = Answer(op, call.status, <<>>, "nobody")

InitDevice(d, is_read_only) ==
    Did("init", [dev |-> IF d \in Digitals
                         THEN mc_digital_init(dev, d, is_read_only)
                         ELSE mc_analog_init(dev, d, is_read_only),
                 status |-> "OK"])

SetDevice(d, value) ==
    Did("set", IF d \in Digitals THEN mc_digital_set_state(dev, d, value)
               ELSE mc_analog_set_value(dev, d, value))

ToggleDevice(d) == d \in Digitals /\ Did("toggle", mc_digital_toggle(dev, d))

SetReadOnly(d, enable) ==
    Did("read_only", [dev |-> [dev EXCEPT !.read_only[Context(d)] = enable],
                      status |-> "OK"])

\* A value or an error changes outside any call.
Moves(d, value) ==
    /\ dev' = [dev EXCEPT !.value[d] = value]
    /\ reply' = Quiet

Fails(c, error) ==
    /\ dev' = [dev EXCEPT !.error[c] = error]
    /\ reply' = Quiet

Calls ==
    \/ \E d \in Switched, b \in BOOLEAN : InitDevice(d, b) \/ SetReadOnly(d, b)
    \/ \E d \in Digitals : ToggleDevice(d)
    \/ \E d \in Devices, n \in Levels : SetDevice(d, n)

Changes ==
    \/ \E d \in Digitals, n \in {0, 1} : Moves(d, n)
    \/ \E d \in Analogs, n \in Levels : Moves(d, n)
    \/ \E c \in Contexts, e \in Faults \cup {"OK"} : Fails(c, e)

DevicesInit ==
    /\ dev = [value |-> [d \in Devices |-> 0],
              read_only |-> [c \in Contexts |-> FALSE],
              error |-> [c \in Contexts |-> "OK"]]
    /\ reply = Quiet
=============================================================================
