---------------------------- MODULE VectorProofs ----------------------------
(***************************************************************************)
(* For any devices, vectors, values and faults: the read-only bit holds    *)
(* against every way of writing, and what a vector write reports is what   *)
(* became of the vector, although the devices change under it.             *)
(***************************************************************************)
EXTENDS Vectors, TLAPS

Statuses == Faults \cup {"OK", Protected}

(***************************************************************************)
(* What the properties rest on.  The axes a write has passed hold the new  *)
(* value and the others the old one, and a write that got past one axis    *)
(* found the vector unlocked: nothing locks it before the call returns.    *)
(***************************************************************************)
WriteSoFar ==
    call.op = "set" =>
        /\ call.value \in [1..3 -> Levels]
        /\ call.axis > 1 => ~dev.read_only[call.vector]
        /\ \A j \in 1..3 :
             Axes[call.vector][j] \notin moved =>
                dev.value[Axes[call.vector][j]] =
                    IF j < call.axis THEN call.value[j] ELSE before[Axes[call.vector][j]]

CallOK ==
    /\ call.op \in {"none", "set", "get"}
    /\ call.op = "none" <=> call = NoCall
    /\ call = [op |-> call.op, vector |-> call.vector, axis |-> call.axis, value |-> call.value]

IInv == TypeOK /\ CallOK /\ WriteSoFar

-----------------------------------------------------------------------------
(* The devices                                                             *)

\* The axes of a vector share its read-only bit, and a device has one.
LEMMA ContextFacts ==
    ASSUME DevicesAssumption
    PROVE  /\ \A d \in Devices : Context(d) \in Contexts
           /\ \A v \in Vectors, i \in 1..3 :
                /\ Axes[v][i] \in Analogs /\ Axes[v][i] \in Devices
                /\ Context(Axes[v][i]) = v
<1>1. \A d \in Devices : Context(d) \in Contexts
  BY DEF Contexts
<1>2. ASSUME NEW v \in Vectors, NEW i \in 1..3
      PROVE  /\ Axes[v][i] \in Analogs /\ Axes[v][i] \in Devices
             /\ Context(Axes[v][i]) = v
  <2> DEFINE d == Axes[v][i]
  <2>1. d \in Analogs /\ d \in Devices
    BY DEF DevicesAssumption, Devices
  <2>2. \A w \in Vectors : (\E j \in 1..3 : Axes[w][j] = d) <=> w = v
    BY DEF DevicesAssumption
  <2> HIDE DEF d
  <2>3. (CHOOSE w \in Vectors : \E j \in 1..3 : Axes[w][j] = d) = v
    BY <2>2
  <2>4. \E w \in Vectors, j \in 1..3 : Axes[w][j] = d
    BY <2>2
  <2>5. Context(d) = v
    BY <2>3, <2>4 DEF Context
  <2> QED BY <2>1, <2>5 DEF d
<1> QED BY <1>1, <1>2

\* States of the devices with every digital one at 0 or 1.
States == {D \in DeviceStates : \A d \in Digitals : D.value[d] \in {0, 1}}

\* A call with value n on device d: it is refused, with the devices left alone,
\* if and only if the device is locked; else n is in the device, whatever the
\* driver then reports.
Writes(call_, D, d, n) ==
    /\ call_.dev \in States
    /\ call_.status \in Statuses
    /\ call_.dev.read_only = D.read_only
    /\ \A e \in Devices \ {d} : call_.dev.value[e] = D.value[e]
    /\ IF D.read_only[Context(d)] THEN call_.dev = D /\ call_.status = Protected
       ELSE call_.dev.value[d] = n /\ call_.status # Protected

LEMMA DataObjectWrites ==
    ASSUME DevicesAssumption, NEW D \in States, NEW d \in Devices, NEW n \in Numbers,
           d \in Digitals => n \in {0, 1}, ~D.read_only[Context(d)]
    PROVE  Writes([dev |-> [D EXCEPT !.value[d] = n], status |-> D.error[Context(d)]], D, d, n)
<1> DEFINE E == [D EXCEPT !.value[d] = n]
<1>1. /\ D \in DeviceStates /\ \A e \in Digitals : D.value[e] \in {0, 1}
      /\ D.value \in [Devices -> Numbers] /\ D.read_only \in [Contexts -> BOOLEAN]
      /\ D.error \in [Contexts -> Faults \cup {"OK"}]
  BY DEF States, DeviceStates
<1>2. /\ E \in DeviceStates /\ E.read_only = D.read_only
      /\ E.value = [D.value EXCEPT ![d] = n]
  BY <1>1 DEF DeviceStates
<1>3. E.value[d] = n /\ \A e \in Devices \ {d} : E.value[e] = D.value[e]
  BY <1>1, <1>2
<1> HIDE DEF E
<1>4. \A e \in Digitals : E.value[e] \in {0, 1}
  BY <1>1, <1>3 DEF Devices
<1>5. D.error[Context(d)] \in Faults \cup {"OK"}
  BY <1>1, ContextFacts
<1>6. D.error[Context(d)] \in Statuses /\ D.error[Context(d)] # Protected
  BY <1>5 DEF DevicesAssumption, Statuses, Protected
<1> QED BY <1>2, <1>3, <1>4, <1>6 DEF Writes, States, E

LEMMA RefuseWrites ==
    ASSUME NEW D \in States, NEW d \in Devices, NEW n, D.read_only[Context(d)]
    PROVE  Writes(Refuse(D, Protected), D, d, n)
BY DEF Refuse, Writes, Statuses

LEMMA AnalogSet ==
    ASSUME DevicesAssumption, NEW D \in States, NEW d \in Analogs, NEW n \in Levels
    PROVE  Writes(mc_analog_set_value(D, d, n), D, d, n)
<1>1. d \in Devices /\ n \in Numbers /\ d \notin Digitals
  BY DEF Devices, Numbers, DevicesAssumption
<1> QED BY <1>1, DataObjectWrites, RefuseWrites
        DEF mc_analog_set_value, mc_analog_data_object_set_value

LEMMA DigitalSet ==
    ASSUME DevicesAssumption, NEW D \in States, NEW d \in Digitals, NEW n
    PROVE  \E bit \in {0, 1} : Writes(mc_digital_set_state(D, d, n), D, d, bit)
<1> DEFINE bit == IF n = 0 THEN 0 ELSE 1
<1>1. d \in Devices /\ bit \in Numbers /\ bit \in {0, 1}
  BY DEF Devices, Numbers
<1>2. mc_digital_set_state(D, d, n) =
        IF D.read_only[Context(d)] THEN Refuse(D, Protected)
        ELSE [dev |-> [D EXCEPT !.value[d] = bit], status |-> D.error[Context(d)]]
  BY DEF mc_digital_set_state, mc_digital_data_object_set_state
<1> HIDE DEF bit
<1>3. Writes(mc_digital_set_state(D, d, n), D, d, bit)
  BY <1>1, <1>2, DataObjectWrites, RefuseWrites
<1> QED BY <1>1, <1>3

\* What any call leaves: the same locks, and the locked devices as they were.
Respects(call_, D) ==
    /\ call_.dev \in States
    /\ call_.status \in Statuses
    /\ call_.dev.read_only = D.read_only
    /\ \A d \in Devices : D.read_only[Context(d)] => call_.dev.value[d] = D.value[d]

LEMMA WritesRespects ==
    ASSUME NEW c, NEW D \in States, NEW d \in Devices, NEW n, Writes(c, D, d, n)
    PROVE  Respects(c, D)
BY DEF Writes, Respects

LEMMA ToggleRespects ==
    ASSUME DevicesAssumption, NEW D \in States, NEW d \in Digitals
    PROVE  Respects(mc_digital_toggle(D, d), D)
<1> DEFINE n == 1 - Read(D, d).value[1]
<1>1. d \in Devices /\ D.error[Context(d)] \in Statuses
  <2>1. d \in Devices
    BY DEF Devices
  <2>2. D.error \in [Contexts -> Faults \cup {"OK"}]
    BY DEF States, DeviceStates
  <2> QED BY <2>1, <2>2, ContextFacts DEF Statuses
<1>2. mc_digital_toggle(D, d) =
        IF D.error[Context(d)] # "OK" THEN Refuse(D, D.error[Context(d)])
        ELSE mc_digital_set_state(D, d, n)
  BY DEF mc_digital_toggle, mc_digital_get_state, Read
<1> HIDE DEF n
<1>3. Respects(mc_digital_set_state(D, d, n), D)
  BY <1>1, DigitalSet, WritesRespects
<1>4. Respects(Refuse(D, D.error[Context(d)]), D)
  BY <1>1 DEF Refuse, Respects
<1> QED BY <1>2, <1>3, <1>4

\* An init starts the device over, and locks or unlocks it.
LEMMA InitStates ==
    ASSUME DevicesAssumption, NEW D \in States, NEW d \in Devices, NEW b \in BOOLEAN
    PROVE  Initialized(D, d, b) \in States
<1> DEFINE c == Context(d)
           value == [D.value EXCEPT ![d] = 0]
           read_only == [D.read_only EXCEPT ![c] = b]
           error == [D.error EXCEPT ![c] = "OK"]
<1>1. /\ D.value \in [Devices -> Numbers] /\ D.read_only \in [Contexts -> BOOLEAN]
      /\ D.error \in [Contexts -> Faults \cup {"OK"}]
      /\ \A e \in Digitals : D.value[e] \in {0, 1}
      /\ c \in Contexts /\ 0 \in Numbers
  BY ContextFacts DEF States, DeviceStates, Numbers
<1>2. Initialized(D, d, b) = [value |-> value, read_only |-> read_only, error |-> error]
  BY DEF Initialized
<1>3. /\ value \in [Devices -> Numbers] /\ read_only \in [Contexts -> BOOLEAN]
      /\ error \in [Contexts -> Faults \cup {"OK"}]
  BY <1>1
<1>4. \A e \in Digitals : value[e] \in {0, 1}
  BY <1>1 DEF Devices
<1> HIDE DEF value, read_only, error
<1> QED BY <1>2, <1>3, <1>4 DEF States, DeviceStates

-----------------------------------------------------------------------------
(* The steps                                                               *)

\* The axes of a vector are three devices, and no other vector's.
LEMMA AxesDiffer ==
    ASSUME DevicesAssumption, NEW v \in Vectors, NEW i \in 1..3, NEW j \in 1..3, i # j
    PROVE  Axes[v][i] # Axes[v][j]
BY DEF DevicesAssumption

\* Once a device is locked only an init gets to its value.
Keeps == \A d \in Devices : dev.read_only[Context(d)] => dev'.value[d] = dev.value[d]

LEMMA CallsStep ==
    ASSUME DevicesAssumption, dev \in States, Calls
    PROVE  /\ dev' \in States /\ reply'.status \in Statuses
           /\ reply'.op # "init" => Keeps
<1>1. ASSUME NEW d \in Switched, NEW b \in BOOLEAN, InitDevice(d, b)
      PROVE  dev' \in States /\ reply'.status \in Statuses /\ reply'.op = "init"
  <2>1. d \in Devices /\ dev' = Initialized(dev, d, b)
    BY <1>1 DEF DevicesAssumption, InitDevice, Did, mc_digital_init, mc_analog_init
  <2>2. reply'.status = "OK" /\ reply'.op = "init"
    BY <1>1 DEF InitDevice, Did, Answer
  <2> QED BY <2>1, <2>2, InitStates DEF Statuses
<1>2. ASSUME NEW d \in Switched, NEW b \in BOOLEAN, SetReadOnly(d, b)
      PROVE  dev' \in States /\ reply'.status \in Statuses /\ Keeps
  <2>1. d \in Devices /\ dev' = [dev EXCEPT !.read_only[Context(d)] = b]
    BY <1>2 DEF DevicesAssumption, SetReadOnly, Did
  <2>2. Context(d) \in Contexts
    BY <2>1, ContextFacts
  <2>3. dev' \in DeviceStates /\ dev'.value = dev.value
    BY <2>1, <2>2 DEF States, DeviceStates
  <2>4. reply'.status \in Statuses
    BY <1>2 DEF SetReadOnly, Did, Answer, Statuses
  <2> QED BY <2>3, <2>4 DEF States, Keeps
<1>3. ASSUME NEW d \in Digitals, ToggleDevice(d)
      PROVE  dev' \in States /\ reply'.status \in Statuses /\ Keeps
  <2>1. dev' = mc_digital_toggle(dev, d).dev /\ reply'.status = mc_digital_toggle(dev, d).status
    BY <1>3 DEF ToggleDevice, Did, Answer
  <2> QED BY <2>1, ToggleRespects DEF Respects, Keeps
<1>4. ASSUME NEW d \in Devices, NEW n \in Levels, SetDevice(d, n)
      PROVE  dev' \in States /\ reply'.status \in Statuses /\ Keeps
  <2> DEFINE set == IF d \in Digitals THEN mc_digital_set_state(dev, d, n)
                    ELSE mc_analog_set_value(dev, d, n)
  <2>1. dev' = set.dev /\ reply'.status = set.status
    BY <1>4 DEF SetDevice, Did, Answer
  <2>2. Respects(set, dev)
    BY DigitalSet, AnalogSet, WritesRespects DEF Devices
  <2> HIDE DEF set
  <2> QED BY <2>1, <2>2 DEF Respects, Keeps
<1> QED BY <1>1, <1>2, <1>3, <1>4 DEF Calls

LEMMA VectorInitStep ==
    ASSUME DevicesAssumption, dev \in States, NEW v \in Vectors, NEW b \in BOOLEAN,
           mc_analog_vector3_init(v, b)
    PROVE  dev' \in States /\ reply'.status \in Statuses /\ reply'.op = "init"
<1> DEFINE One == mc_analog_init(dev, Axes[v][1], b)
           Two == mc_analog_init(One, Axes[v][2], b)
           Three == mc_analog_init(Two, Axes[v][3], b)
<1>1. dev' = Three /\ reply'.status = "OK" /\ reply'.op = "init"
  BY DEF mc_analog_vector3_init, Did, Answer
<1>2. \A i \in 1..3 : Axes[v][i] \in Devices
  BY ContextFacts
<1>3. \A D \in States, i \in 1..3 : mc_analog_init(D, Axes[v][i], b) \in States
  BY <1>2, InitStates DEF mc_analog_init
<1>4. One \in States
  BY <1>3
<1>5. Two \in States
  BY <1>3, <1>4
<1>6. Three \in States
  BY <1>3, <1>5
<1> QED BY <1>1, <1>6 DEF Statuses

LEMMA VectorLockStep ==
    ASSUME DevicesAssumption, dev \in States, NEW v \in Vectors, NEW b \in BOOLEAN,
           mc_analog_vector3_set_read_only(v, b)
    PROVE  dev' \in States /\ reply'.status \in Statuses /\ Keeps
<1>1. dev' \in DeviceStates /\ dev'.value = dev.value
  BY DEF mc_analog_vector3_set_read_only, Did, States, DeviceStates
<1>2. reply'.status \in Statuses
  BY DEF mc_analog_vector3_set_read_only, Did, Answer, Statuses
<1> QED BY <1>1, <1>2 DEF States, Keeps

\* An interrupt locks nothing.
LEMMA ChangesStep ==
    ASSUME DevicesAssumption, dev \in States, Changes
    PROVE  /\ dev' \in States /\ dev'.read_only = dev.read_only
           /\ reply' = Quiet
<1>1. ASSUME NEW d \in Devices, NEW n \in Numbers, d \in Digitals => n \in {0, 1}, Moves(d, n)
      PROVE  dev' \in States /\ dev'.read_only = dev.read_only /\ reply' = Quiet
  <2>1. /\ dev' \in DeviceStates /\ dev'.read_only = dev.read_only
        /\ dev'.value = [dev.value EXCEPT ![d] = n]
    BY <1>1 DEF Moves, States, DeviceStates
  <2>2. \A e \in Digitals : dev'.value[e] \in {0, 1}
    BY <1>1, <2>1 DEF States, DeviceStates, Devices
  <2> QED BY <1>1, <2>1, <2>2 DEF Moves, States
<1>2. ASSUME NEW c \in Contexts, NEW e \in Faults \cup {"OK"}, Fails(c, e)
      PROVE  dev' \in States /\ dev'.read_only = dev.read_only /\ reply' = Quiet
  <2>1. /\ dev' \in DeviceStates /\ dev'.read_only = dev.read_only
        /\ dev'.value = dev.value
    BY <1>2 DEF Fails, States, DeviceStates
  <2> QED BY <1>2, <2>1 DEF Fails, States
<1>3. Digitals \subseteq Devices /\ {0, 1} \subseteq Numbers
  BY DEF Devices, Numbers
<1>4. Analogs \subseteq Devices /\ Levels \subseteq Numbers /\ Analogs \cap Digitals = {}
  BY DEF Devices, Numbers, DevicesAssumption
<1> QED BY <1>1, <1>2, <1>3, <1>4 DEF Changes

\* The write of one axis.
LEMMA SetAxisStep ==
    ASSUME DevicesAssumption, IInv, SetAxis
    PROVE  /\ call.vector \in Vectors /\ call.axis \in 1..3 /\ dev \in States
           /\ \E set : /\ Writes(set, dev, Axes[call.vector][call.axis], call.value[call.axis])
                       /\ dev' = set.dev
                       /\ \/ /\ set.status # "OK" \/ call.axis = 3
                             /\ reply'.status = set.status /\ call' = NoCall
                          \/ /\ set.status = "OK" /\ call.axis < 3
                             /\ reply'.status = "OK"
                             /\ call' = [call EXCEPT !.axis = call.axis + 1]
<1> DEFINE set == mc_analog_set_value(dev, Axes[call.vector][call.axis], call.value[call.axis])
<1>1. /\ call.op = "set" /\ call # NoCall
      /\ call.vector \in Vectors /\ call.axis \in 1..3 /\ dev \in States
      /\ call.value \in [1..3 -> Levels]
  BY DEF SetAxis, IInv, TypeOK, CallOK, WriteSoFar, NoCall, States
<1>2. Axes[call.vector][call.axis] \in Analogs /\ call.value[call.axis] \in Levels
  BY <1>1, ContextFacts
<1>3. Writes(set, dev, Axes[call.vector][call.axis], call.value[call.axis])
  BY <1>1, <1>2, AnalogSet
<1>4. /\ dev' = set.dev
      /\ \/ /\ set.status # "OK" \/ call.axis = 3
            /\ reply'.status = set.status /\ call' = NoCall
         \/ /\ set.status = "OK" /\ call.axis < 3
            /\ reply'.status = "OK"
            /\ call' = [call EXCEPT !.axis = call.axis + 1]
  BY DEF SetAxis, Ends, Answer
<1> HIDE DEF set
<1> QED BY <1>1, <1>3, <1>4

-----------------------------------------------------------------------------
(* The invariant                                                           *)

LEMMA InitIInv == ASSUME DevicesAssumption PROVE Init => IInv
<1> SUFFICES ASSUME Init PROVE IInv
  OBVIOUS
<1>1. dev \in DeviceStates /\ \A d \in Digitals : dev.value[d] \in {0, 1}
  BY DEF Init, DevicesInit, DeviceStates, Numbers, Devices
<1>2. reply.status \in Faults \cup {"OK", Protected} /\ call = NoCall /\ moved \subseteq Devices
  BY DEF Init, DevicesInit, Quiet, Answer
<1> QED BY <1>1, <1>2 DEF IInv, TypeOK, CallOK, WriteSoFar, NoCall

LEMMA StepIInv == ASSUME DevicesAssumption PROVE IInv /\ [Next]_vars => IInv'
<1> SUFFICES ASSUME IInv, [Next]_vars PROVE IInv'
  OBVIOUS
<1>0. dev \in States
  BY DEF IInv, TypeOK, States
<1>1. ASSUME dev' \in States, reply'.status \in Statuses, call' = NoCall, moved' = {}
      PROVE  IInv'
  BY <1>1 DEF IInv, TypeOK, CallOK, WriteSoFar, States, Statuses, NoCall
<1>2. CASE Application
  <2>1. CASE /\ \/ Calls
                \/ \E v \in Vectors, b \in BOOLEAN :
                     \/ mc_analog_vector3_init(v, b)
                     \/ mc_analog_vector3_set_read_only(v, b)
             /\ call' = NoCall /\ moved' = {}
    BY <1>0, <1>1, <2>1, CallsStep, VectorInitStep, VectorLockStep
  <2>2. ASSUME NEW v \in Vectors, NEW w \in [1..3 -> Levels], mc_analog_vector3_set_value(v, w)
        PROVE  IInv'
    <3>1. /\ call' = [op |-> "set", vector |-> v, axis |-> 1, value |-> w]
          /\ before' = dev.value /\ moved' = {} /\ dev' = dev /\ reply' = Quiet
      BY <2>2 DEF mc_analog_vector3_set_value, Begin
    <3>2. TypeOK'
      BY <1>0, <3>1 DEF TypeOK, States, Quiet, Answer
    <3>3. CallOK'
      BY <3>1 DEF CallOK, NoCall
    <3>4. WriteSoFar'
      BY <3>1 DEF WriteSoFar
    <3> QED BY <3>2, <3>3, <3>4 DEF IInv
  <2>3. ASSUME NEW v \in Vectors, mc_analog_vector3_get_value(v) PROVE IInv'
    <3>1. /\ call' = [op |-> "get", vector |-> v, axis |-> 1, value |-> <<>>]
          /\ moved' = {} /\ dev' = dev /\ reply' = Quiet
      BY <2>3 DEF mc_analog_vector3_get_value, Begin
    <3>2. TypeOK'
      BY <1>0, <3>1 DEF TypeOK, States, Quiet, Answer
    <3>3. CallOK' /\ WriteSoFar'
      BY <3>1 DEF CallOK, NoCall, WriteSoFar
    <3> QED BY <3>2, <3>3 DEF IInv
  <2> QED BY <1>2, <2>1, <2>2, <2>3 DEF Application
<1>3. CASE SetAxis
  <2> DEFINE v == call.vector
             i == call.axis
  <2>1. PICK set : /\ Writes(set, dev, Axes[v][i], call.value[i])
                   /\ dev' = set.dev
                   /\ \/ /\ set.status # "OK" \/ i = 3
                         /\ reply'.status = set.status /\ call' = NoCall
                      \/ /\ set.status = "OK" /\ i < 3
                         /\ reply'.status = "OK"
                         /\ call' = [call EXCEPT !.axis = i + 1]
    BY <1>3, SetAxisStep
  <2>2. v \in Vectors /\ i \in 1..3 /\ moved' = moved /\ before' = before
    BY <1>3, SetAxisStep DEF SetAxis
  <2>3. dev' \in States /\ reply'.status \in Statuses
    BY <2>1 DEF Writes, Statuses
  <2>4. CASE call' = NoCall
    BY <2>2, <2>3, <2>4 DEF IInv, TypeOK, CallOK, WriteSoFar, States, Statuses, NoCall
  <2>5. CASE set.status = "OK" /\ i < 3 /\ call' = [call EXCEPT !.axis = i + 1]
    <3>1. /\ call = [op |-> "set", vector |-> v, axis |-> i, value |-> call.value]
          /\ call' = [op |-> "set", vector |-> v, axis |-> i + 1, value |-> call.value]
      BY <1>3, <2>5 DEF SetAxis, IInv, CallOK
    <3>2. i + 1 \in 1..3
      BY <2>2, <2>5
    <3>3. TypeOK'
      BY <2>2, <2>3, <3>1, <3>2 DEF IInv, TypeOK, States, Statuses
    <3>4. CallOK'
      BY <3>1 DEF CallOK, NoCall
    <3>5. /\ call.value \in [1..3 -> Levels]
          /\ \A j \in 1..3 :
               Axes[v][j] \notin moved =>
                  dev.value[Axes[v][j]] =
                     IF j < i THEN call.value[j] ELSE before[Axes[v][j]]
      BY <1>3 DEF IInv, WriteSoFar, SetAxis
    <3>6. Context(Axes[v][i]) = v
      BY <2>2, ContextFacts
    <3>7. ~dev.read_only[v] /\ dev'.read_only = dev.read_only
      BY <2>1, <2>5, <3>6 DEF Writes, Protected
    <3>8. dev'.value[Axes[v][i]] = call.value[i]
      BY <2>1, <3>6, <3>7 DEF Writes
    <3>9. \A j \in 1..3 : j # i => dev'.value[Axes[v][j]] = dev.value[Axes[v][j]]
      <4> SUFFICES ASSUME NEW j \in 1..3, j # i
                   PROVE  dev'.value[Axes[v][j]] = dev.value[Axes[v][j]]
        OBVIOUS
      <4>1. Axes[v][j] \in Devices \ {Axes[v][i]}
        BY <2>2, AxesDiffer, ContextFacts
      <4> QED BY <2>1, <4>1 DEF Writes
    <3>10. ASSUME NEW j \in 1..3, Axes[v][j] \notin moved
           PROVE  dev'.value[Axes[v][j]] =
                     IF j < i + 1 THEN call.value[j] ELSE before[Axes[v][j]]
      <4>1. CASE j = i
        BY <2>2, <3>8, <4>1
      <4>2. CASE j # i
        <5>1. dev'.value[Axes[v][j]] = IF j < i THEN call.value[j] ELSE before[Axes[v][j]]
          BY <3>5, <3>9, <3>10, <4>2
        <5>2. j < i <=> j < i + 1
          BY <2>2, <4>2
        <5> QED BY <5>1, <5>2
      <4> QED BY <4>1, <4>2
    <3> HIDE DEF v, i
    <3>11. WriteSoFar'
      BY <2>2, <3>1, <3>5, <3>7, <3>10 DEF WriteSoFar
    <3> QED BY <3>3, <3>4, <3>11 DEF IInv
  <2> QED BY <2>1, <2>4, <2>5
<1>4. CASE GetAxis
  <2> DEFINE error == dev.error[Context(Axes[call.vector][call.axis])]
  <2>1. /\ call.op = "get" /\ call # NoCall
        /\ call.vector \in Vectors /\ call.axis \in 1..3
        /\ call = [op |-> "get", vector |-> call.vector, axis |-> call.axis, value |-> call.value]
    BY <1>4 DEF GetAxis, IInv, TypeOK, CallOK, NoCall
  <2>2. Context(Axes[call.vector][call.axis]) \in Contexts
    BY <2>1, ContextFacts
  <2>3. error \in Statuses /\ "OK" \in Statuses
    BY <1>0, <2>2 DEF States, DeviceStates, Statuses
  <2>4. dev' = dev /\ moved' = moved
    BY <1>4 DEF GetAxis
  <2>5. CASE call' = NoCall /\ reply'.status \in Statuses
    BY <1>0, <2>4, <2>5 DEF IInv, TypeOK, CallOK, WriteSoFar, States, Statuses, NoCall
  <2>6. ASSUME call.axis < 3, reply'.status \in Statuses,
               NEW value, call' = [call EXCEPT !.axis = call.axis + 1, !.value = value]
        PROVE  IInv'
    <3>1. call' = [op |-> "get", vector |-> call.vector,
                   axis |-> call.axis + 1, value |-> value]
      BY <2>1, <2>6
    <3>2. call.axis + 1 \in 1..3
      BY <2>1, <2>6
    <3>3. TypeOK'
      BY <2>1, <2>4, <2>6, <3>1, <3>2 DEF IInv, TypeOK, Statuses
    <3> QED BY <3>1, <3>3 DEF IInv, CallOK, WriteSoFar, NoCall
  <2> DEFINE read == mc_analog_get_value(dev, Axes[call.vector][call.axis])
             value == call.value \o read.value
  <2>7. read.status \in Statuses
    BY <2>3 DEF mc_analog_get_value, Read
  <2>8. \/ read.status # "OK" /\ Ends(read.status, <<>>)
        \/ Ends("OK", value)
        \/ /\ call.axis < 3 /\ reply' = Answer("axis", "OK", <<>>, "nobody")
           /\ call' = [call EXCEPT !.axis = call.axis + 1, !.value = value]
    BY <1>4 DEF GetAxis
  <2> HIDE DEF read, value
  <2>9. CASE Ends(read.status, <<>>) \/ Ends("OK", value)
    BY <2>3, <2>5, <2>7, <2>9 DEF Ends, Answer
  <2>10. CASE /\ call.axis < 3 /\ reply' = Answer("axis", "OK", <<>>, "nobody")
              /\ call' = [call EXCEPT !.axis = call.axis + 1, !.value = value]
    <3>1. reply'.status \in Statuses
      BY <2>3, <2>10 DEF Answer
    <3> QED BY <2>6, <2>10, <3>1
  <2> QED BY <2>8, <2>9, <2>10
<1>5. CASE Interrupt
  <2>1. /\ dev' \in States /\ dev'.read_only = dev.read_only /\ reply' = Quiet
        /\ call' = call /\ before' = before
    BY <1>0, <1>5, ChangesStep DEF Interrupt
  <2>2. CASE call = NoCall
    BY <1>1, <1>5, <2>1, <2>2 DEF Interrupt, Quiet, Answer, Statuses
  <2>3. CASE call # NoCall
    <3>1. moved' = moved \cup {d \in Devices : dev'.value[d] # dev.value[d]}
      BY <1>5, <2>3 DEF Interrupt
    <3>2. TypeOK'
      BY <2>1, <3>1 DEF IInv, TypeOK, States, Quiet, Answer
    <3>3. CallOK'
      BY <2>1 DEF IInv, CallOK
    <3>4. WriteSoFar'
      <4> SUFFICES ASSUME call.op = "set" PROVE WriteSoFar'
        BY <2>1 DEF WriteSoFar
      <4>1. call.vector \in Vectors /\ WriteSoFar
        BY <2>3 DEF IInv, TypeOK
      <4>2. \A j \in 1..3 : Axes[call.vector][j] \notin moved' =>
               /\ Axes[call.vector][j] \notin moved
               /\ dev'.value[Axes[call.vector][j]] = dev.value[Axes[call.vector][j]]
        BY <3>1, <4>1, ContextFacts
      <4> QED BY <2>1, <4>1, <4>2 DEF WriteSoFar
    <3> QED BY <3>2, <3>3, <3>4 DEF IInv
  <2> QED BY <2>2, <2>3
<1>6. CASE UNCHANGED vars
  BY <1>6 DEF vars, IInv, TypeOK, CallOK, WriteSoFar
<1> QED BY <1>2, <1>3, <1>4, <1>5, <1>6 DEF Next

THEOREM VectorSafe == Spec => []IInv
<1>1. Init => IInv
  BY InitIInv, DevicesAssumption
<1>2. IInv /\ [Next]_vars => IInv'
  BY StepIInv, DevicesAssumption
<1> QED BY <1>1, <1>2, PTL DEF Spec

\* The devices, and the call under way, keep to their types.
COROLLARY VectorTyped == Spec => []TypeOK
<1>1. IInv => TypeOK
  BY DEF IInv
<1> QED BY <1>1, VectorSafe, PTL

-----------------------------------------------------------------------------
(* The properties of steps                                                 *)

LEMMA StepKeeps ==
    ASSUME DevicesAssumption, IInv, [Next]_vars, reply'.op \notin {"none", "init"}
    PROVE  Keeps
<1>0. dev \in States
  BY DEF IInv, TypeOK, States
<1>1. CASE Application
  <2>1. CASE dev' = dev
    BY <2>1 DEF Keeps
  <2>2. dev' = dev \/ Calls \/ \E v \in Vectors, b \in BOOLEAN :
                                  \/ mc_analog_vector3_init(v, b)
                                  \/ mc_analog_vector3_set_read_only(v, b)
    BY <1>1 DEF Application, mc_analog_vector3_set_value, mc_analog_vector3_get_value, Begin
  <2> QED BY <1>0, <2>1, <2>2, CallsStep, VectorInitStep, VectorLockStep
<1>2. CASE SetAxis
  <2>1. PICK set : /\ Writes(set, dev, Axes[call.vector][call.axis], call.value[call.axis])
                   /\ dev' = set.dev
    BY <1>2, SetAxisStep
  <2>2. Axes[call.vector][call.axis] \in Devices
    BY <1>2, SetAxisStep, ContextFacts
  <2>3. Respects(set, dev)
    BY <1>0, <2>1, <2>2, WritesRespects
  <2> QED BY <2>1, <2>3 DEF Respects, Keeps
<1>3. CASE GetAxis
  BY <1>3 DEF GetAxis, Keeps
<1>4. CASE Interrupt
  BY <1>0, <1>4, ChangesStep DEF Interrupt, Quiet, Answer
<1>5. CASE UNCHANGED vars
  BY <1>5 DEF vars, Keeps
<1> QED BY <1>1, <1>2, <1>3, <1>4, <1>5 DEF Next

\* No write, toggle or vector call gets past the read-only bit of a device,
\* whether it is the device's own or one it shares with the other axes.
THEOREM VectorLockHolds == Spec => LockedIsKept
<1>1. IInv /\ [Next]_vars =>
        [ \A d \in Devices :
            dev.read_only[Context(d)] /\ reply'.op \notin {"none", "init"}
            => dev'.value[d] = dev.value[d] ]_vars
  BY StepKeeps, DevicesAssumption DEF Keeps
<1> QED BY <1>1, VectorSafe, PTL DEF Spec, LockedIsKept

\* Only the write of an axis ends the write of a vector.
LEMMA WriteEnds ==
    ASSUME [Next]_vars, call.op = "set", call' = NoCall
    PROVE  SetAxis
<1>1. NoCall.op = "none"
  BY DEF NoCall
<1>2. call # NoCall
  BY <1>1
<1>3. ~Application
  BY <1>2 DEF Application
<1>4. ~GetAxis
  BY DEF GetAxis
<1>5. ~Interrupt /\ ~UNCHANGED vars
  BY <1>2 DEF Interrupt, vars
<1> QED BY <1>3, <1>4, <1>5 DEF Next

LEMMA StepStatus ==
    ASSUME DevicesAssumption, IInv, [Next]_vars, call.op = "set", call' = NoCall,
           NEW i \in 1..3, Axes[call.vector][i] \notin moved
    PROVE  dev'.value[Axes[call.vector][i]] =
             IF i <= (CASE reply'.status = "OK" -> 3
                        [] reply'.status = Protected -> 0
                        [] OTHER -> call.axis)
             THEN call.value[i] ELSE before[Axes[call.vector][i]]
<1> DEFINE v == call.vector
           k == call.axis
<1>1. SetAxis /\ WriteSoFar
  BY WriteEnds DEF IInv
<1>2. PICK set : /\ Writes(set, dev, Axes[v][k], call.value[k])
                 /\ dev' = set.dev
                 /\ \/ /\ set.status # "OK" \/ k = 3
                       /\ reply'.status = set.status /\ call' = NoCall
                    \/ /\ set.status = "OK" /\ k < 3
                       /\ reply'.status = "OK"
                       /\ call' = [call EXCEPT !.axis = k + 1]
  BY <1>1, SetAxisStep
<1>3. v \in Vectors /\ k \in 1..3
  BY <1>1, SetAxisStep
<1>4. Context(Axes[v][k]) = v
  BY <1>3, ContextFacts
<1>5. dev.value[Axes[v][i]] = IF i < k THEN call.value[i] ELSE before[Axes[v][i]]
  BY <1>1 DEF WriteSoFar
<1>6. CASE dev.read_only[v]
  <2>1. dev' = dev /\ reply'.status = Protected /\ k = 1
    BY <1>1, <1>2, <1>3, <1>4, <1>6 DEF Writes, WriteSoFar, Protected
  <2>2. dev'.value[Axes[v][i]] = before[Axes[v][i]]
    BY <1>5, <2>1
  <2>3. (CASE reply'.status = "OK" -> 3 [] reply'.status = Protected -> 0 [] OTHER -> k) = 0
    BY <2>1 DEF Protected
  <2> QED BY <2>2, <2>3
<1>7. CASE ~dev.read_only[v]
  <2> DEFINE written == CASE reply'.status = "OK" -> 3
                          [] reply'.status = Protected -> 0
                          [] OTHER -> k
  <2>1. dev'.value[Axes[v][k]] = call.value[k] /\ set.status # Protected
    BY <1>2, <1>4, <1>7 DEF Writes
  <2>2. reply'.status = set.status /\ (set.status # "OK" \/ k = 3)
    <3>1. call' # [call EXCEPT !.axis = k + 1]
      BY DEF NoCall, IInv, CallOK
    <3> QED BY <1>2, <3>1
  <2>3. written = k
    BY <2>1, <2>2 DEF Protected
  <2>4. dev'.value[Axes[v][i]] = IF i <= k THEN call.value[i] ELSE before[Axes[v][i]]
    <3>1. CASE i = k
      BY <1>3, <2>1, <3>1
    <3>2. CASE i # k
      <4>1. Axes[v][i] \in Devices \ {Axes[v][k]}
        BY <1>3, <3>2, AxesDiffer, ContextFacts
      <4>2. dev'.value[Axes[v][i]] = dev.value[Axes[v][i]]
        BY <1>2, <4>1 DEF Writes
      <4>3. i < k <=> i <= k
        BY <1>3, <3>2
      <4> QED BY <1>5, <4>2, <4>3
    <3> QED BY <3>1, <3>2
  <2> QED BY <2>3, <2>4
<1> QED BY <1>6, <1>7

\* The status of a vector write says which of the axes were written, whatever
\* the interrupts between them did to the devices and to the driver.
THEOREM VectorReports == Spec => VectorStatusIsTrue
<1>1. IInv /\ [Next]_vars =>
        [ call.op = "set" /\ call' = NoCall =>
            LET written == CASE reply'.status = "OK" -> 3
                             [] reply'.status = Protected -> 0
                             [] OTHER -> call.axis
            IN  \A i \in 1..3 :
                  LET d == Axes[call.vector][i]
                  IN  d \notin moved =>
                        dev'.value[d] = IF i <= written THEN call.value[i]
                                        ELSE before[d] ]_vars
  BY StepStatus, DevicesAssumption
<1> QED BY <1>1, VectorSafe, PTL DEF Spec, VectorStatusIsTrue

=============================================================================
