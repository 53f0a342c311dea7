---------------------------- MODULE LeafSystems ----------------------------
(***************************************************************************)
(* src/core/system/modules: the systems over one device.  A system offers  *)
(* functions f0.., inputs x0.., outputs y0.. and aliases; what it offers   *)
(* depends on the device being read-only.  It remembers the target of the  *)
(* last write.  Several systems may share a device.                        *)
(***************************************************************************)
EXTENDS Devices

CONSTANTS
    DigitalSystems, AnalogSystems,
    Device      \* the device of each

Leaves == DigitalSystems \cup AnalogSystems
Nobody == "nobody"
Types == {"f", "x", "y"}    \* mc_sys_cmd_type_t

ASSUME LeavesAssumption ==
    /\ DigitalSystems \cap AnalogSystems = {}
    /\ Nobody \notin Leaves
    /\ \A s \in DigitalSystems : Device[s] \in Digitals
    /\ \A s \in AnalogSystems : Device[s] \in Analogs

VARIABLES
    target,     \* target_state, target_value
    pending     \* an invoke between its two reads of the device

vars == <<dev, reply, target, pending>>

Idle == [leaf |-> Nobody, seen |-> 0]

-----------------------------------------------------------------------------
(* What a system offers, given the read-only bits R of the devices         *)

\* Mutant: a read-only device is offered for writing.
DigitalCountStale(R, s, type) == [f |-> 1, x |-> 1, y |-> 1, alias |-> 5][type]

digital_sys_count(R, s, type) ==
    IF R[Context(Device[s])]
    THEN [f |-> 0, x |-> 0, y |-> 1, alias |-> 1][type]
    ELSE [f |-> 1, x |-> 1, y |-> 1, alias |-> 5][type]

analog_sys_count(R, s, type) ==
    IF R[Context(Device[s])]
    THEN [f |-> 0, x |-> 0, y |-> 1, alias |-> 1][type]
    ELSE [f |-> 0, x |-> 1, y |-> 1, alias |-> 2][type]

LeafCount(R, s, type) ==
    IF s \in DigitalSystems THEN digital_sys_count(R, s, type)
    ELSE analog_sys_count(R, s, type)

\* mc_sys_cmd_info_t: a command, its local id and its preset value if any.
Info(type, preset) == [type |-> type, id |-> 0, preset |-> preset]

digital_sys_get_alias(id) ==
    << Info("y", {}), Info("x", {}), Info("x", {1}), Info("x", {0}),
       Info("f", {}) >>[id + 1]

analog_sys_get_alias(id) == << Info("y", {}), Info("x", {}) >>[id + 1]

leaf_get_alias(s, id) ==
    IF s \in DigitalSystems THEN digital_sys_get_alias(id)
    ELSE analog_sys_get_alias(id)

-----------------------------------------------------------------------------
(* Commands on the system that a call was dispatched to                    *)

Refused(op, status) ==
    /\ reply' = Answer(op, status, <<>>, Nobody)
    /\ UNCHANGED <<dev, target, pending>>

\* Mutant: the target keeps the number as it came.
DigitalWriteRaw(s, val) ==
    LET call == mc_digital_set_state(dev, Device[s], val)
    IN  /\ dev' = call.dev
        /\ target' = [target EXCEPT ![s] = val]
        /\ reply' = Answer("write", call.status, <<>>, s)

digital_sys_write_input(s, val) ==
    LET call == mc_digital_set_state(dev, Device[s], val)
    IN  /\ dev' = call.dev
        /\ target' = [target EXCEPT ![s] = IF val = 0 THEN 0 ELSE 1]
        /\ reply' = Answer("write", call.status, <<>>, s)

analog_sys_write_input(s, val) ==
    LET call == mc_analog_set_value(dev, Device[s], val)
    IN  /\ dev' = call.dev
        /\ target' = [target EXCEPT ![s] = val]
        /\ reply' = Answer("write", call.status, <<>>, s)

WriteAt(s, val) ==
    /\ \/ s \in DigitalSystems /\ digital_sys_write_input(s, val)
       \/ s \in AnalogSystems /\ analog_sys_write_input(s, val)
    /\ UNCHANGED pending

ReadInputAt(s) ==
    /\ reply' = Answer("read", "OK", <<target[s]>>, s)
    /\ UNCHANGED <<dev, target, pending>>

ReadOutputAt(s) ==
    LET call == IF s \in DigitalSystems
                THEN mc_digital_get_state(dev, Device[s])
                ELSE mc_analog_get_value(dev, Device[s])
    IN  /\ reply' = Answer("read", call.status, call.value, s)
        /\ UNCHANGED <<dev, target, pending>>

\* digital_sys_invoke reads the device, then mc_digital_toggle reads it again.
InvokeAt(s) ==
    LET current == mc_digital_get_state(dev, Device[s])
    IN  /\ s \in DigitalSystems
        /\ \/ /\ current.status # "OK"
              /\ Refused("invoke", current.status)
           \/ /\ current.status = "OK"
              /\ target' = [target EXCEPT ![s] = 1 - current.value[1]]
              /\ pending' = [leaf |-> s, seen |-> current.value[1]]
              /\ reply' = Quiet
              /\ UNCHANGED dev

Toggle ==
    LET s == pending.leaf
        call == mc_digital_toggle(dev, Device[s])
    IN  /\ s # Nobody
        /\ dev' = call.dev
        /\ reply' = Answer("invoke", call.status, <<>>, s)
        /\ pending' = Idle
        /\ UNCHANGED target

\* mc_sys_init of the systems in order: the target starts from the device.
\* One step for all of them, as if no device moved meanwhile.
leaf_init(S) ==
    LET start(s) == LET got == Read(dev, Device[s])
                    IN  IF got.status = "OK" THEN got.value[1] ELSE 0
    IN  /\ target' = [s \in Leaves |-> IF s \in S THEN start(s) ELSE target[s]]
        /\ reply' = Quiet
        /\ UNCHANGED <<dev, pending>>

-----------------------------------------------------------------------------
(* What goes on around the systems                                         *)

Init ==
    /\ DevicesInit
    /\ target = [s \in Leaves |-> 0]
    /\ pending = Idle

\* One thread: the application makes no call inside another, but a device may
\* change at any time.
Surroundings ==
    /\ \/ pending = Idle /\ Calls
       \/ Changes
    /\ UNCHANGED <<target, pending>>
=============================================================================
