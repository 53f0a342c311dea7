--------------------------- MODULE FirmwareProofs ---------------------------
(***************************************************************************)
(* Proofs about Firmware: the invariants of the stream and of the console  *)
(* hold of them in the program, and what the program adds to each.         *)
(***************************************************************************)
EXTENDS Firmware, SystemProofs

SP == INSTANCE StreamProofs

-----------------------------------------------------------------------------
(* The stream in the program                                               *)

LEMMA StreamAssumed == SP!StreamAssumption
BY FirmwareAssumption DEF S!StreamAssumption, SP!StreamAssumption, S!Flags, SP!Flags

\* The terms of Stream and of its proofs are the same.
LEMMA StreamTerms ==
    /\ S!Message = SP!Message
    /\ S!EndsLine = SP!EndsLine /\ S!ReadyAfter = SP!ReadyAfter
    /\ S!AfterDispatch = SP!AfterDispatch
    /\ \A s : S!ReturnStatus(s) = SP!ReturnStatus(s)
BY DEF S!Message, SP!Message, S!EndsLine, SP!EndsLine, S!ReadyAfter, SP!ReadyAfter,
       S!AfterDispatch, SP!AfterDispatch, S!ReturnStatus, SP!ReturnStatus,
       S!Refreshed, SP!Refreshed, S!convert_status, SP!convert_status

LEMMA ReadsAre ==
    /\ S!Reads = SP!Reads
    /\ S!NoMore = SP!NoMore /\ S!Leave = SP!Leave /\ S!InControl = SP!InControl
BY DEF S!Reads, SP!Reads, S!NoMore, SP!NoMore, S!Leave, SP!Leave, S!InControl, SP!InControl

\* So are its steps.
LEMMA UpdateIs ==
    S!BeginUpdate \/ S!ReadDelimiter \/ S!SkipDelimiter \/ S!StoreChar \/ S!DropChar
      \/ S!PollDone \/ S!Finish => SP!Update
<1>1. S!BeginUpdate => SP!BeginUpdate
  BY DEF S!BeginUpdate, SP!BeginUpdate, S!driver, SP!driver, S!state, SP!state,
         S!history, SP!history
<1>2. /\ S!ReadDelimiter => SP!ReadDelimiter
      /\ S!SkipDelimiter => SP!SkipDelimiter
      /\ S!StoreChar => SP!StoreChar
      /\ S!DropChar => SP!DropChar
  BY StreamTerms, ReadsAre
  DEF S!ReadDelimiter, SP!ReadDelimiter, S!SkipDelimiter, SP!SkipDelimiter,
      S!StoreChar, SP!StoreChar, S!DropChar, SP!DropChar
<1>3. S!PollDone => SP!PollDone
  BY StreamTerms, ReadsAre DEF S!PollDone, SP!PollDone, S!driver, SP!driver
<1>4. S!Finish => SP!Finish
  BY StreamTerms, ReadsAre DEF S!Finish, SP!Finish, S!driver, SP!driver
<1> QED BY <1>1, <1>2, <1>3, <1>4 DEF SP!Update

LEMMA StreamCallsAre ==
    S!mc_stream_init \/ S!mc_stream_write \/ S!mc_stream_register_rx_callback => SP!Calls
<1>1. S!mc_stream_init => SP!mc_stream_init
  BY DEF S!mc_stream_init, SP!mc_stream_init
<1>2. S!mc_stream_write => SP!mc_stream_write
  BY StreamTerms, ReadsAre DEF S!mc_stream_write, SP!mc_stream_write,
     S!driver, SP!driver, S!locals, SP!locals, S!history, SP!history
<1>3. S!mc_stream_register_rx_callback => SP!mc_stream_register_rx_callback
  BY ReadsAre DEF S!mc_stream_register_rx_callback, SP!mc_stream_register_rx_callback,
     S!driver, SP!driver, S!locals, SP!locals, S!history, SP!history
<1> QED BY <1>1, <1>2, <1>3 DEF SP!Calls

LEMMA WorldIs ==
    ASSUME SP!TypeOK, Receive \/ HwChanges
    PROVE  SP!Environment
<1>1. ASSUME S!HwChanges PROVE SP!HwChanges
  BY <1>1 DEF S!HwChanges, SP!HwChanges, S!state, SP!state, S!locals, SP!locals,
     S!history, SP!history
<1>2. ASSUME Receive PROVE SP!Arrive(NL) \/ SP!Arrive(arrived + 1)
  <2>1. arrived < Len(Sent) /\ S!Arrive(Sent[arrived + 1])
    BY <1>2 DEF Receive
  <2>2. S!Arrive(Sent[arrived + 1]) => SP!Arrive(Sent[arrived + 1])
    BY DEF S!Arrive, SP!Arrive, S!state, SP!state, S!locals, SP!locals,
       S!history, SP!history
  <2>3. Sent[arrived + 1] \in {arrived + 1, NL}
    <3>1. Len(Sent) \in Nat /\ DOMAIN Sent = 1..Len(Sent)
      BY FirmwareAssumption
    <3>2. arrived \in Nat
      BY <3>1 DEF SP!TypeOK, MaxArrivals
    <3>3. arrived + 1 \in DOMAIN Sent
      BY <2>1, <3>1, <3>2
    <3> QED BY <3>3, FirmwareAssumption
  <2> QED BY <2>1, <2>2, <2>3
<1> QED BY <1>1, <1>2 DEF HwChanges, SP!Environment

\* The program does to the stream what users of Stream do to it.
LEMMA StreamStep == SP!IInv /\ [FirmwareNext]_fvars => [SP!Next]_(SP!vars)
<1> SUFFICES ASSUME SP!IInv, [FirmwareNext]_fvars PROVE [SP!Next]_(SP!vars)
  OBVIOUS
<1>1. UNCHANGED stream => UNCHANGED SP!vars
  BY DEF stream, SP!vars, SP!driver, SP!state, SP!locals, SP!history
<1>2. mc_assert_handler => UNCHANGED stream
  BY DEF mc_assert_handler
<1>3. CASE Setup
  <2>1. \/ S!mc_stream_init
        \/ mc_assert_handler \/ S!mc_stream_register_rx_callback
        \/ UNCHANGED stream
    BY <1>3 DEF Setup, mc_stream_init, mc_sys_console_init, InitSystem, mc_debug_init,
       mc_debug_set_level, _mc_log, DumpSystems, Asserts
  <2> QED BY <1>1, <1>2, <2>1, StreamCallsAre DEF SP!Next
<1>4. CASE BeginUpdate
  BY <1>1, <1>2, <1>4, UpdateIs DEF BeginUpdate, Asserts, SP!Next
<1>5. CASE Run
  <2>1. \/ S!ReadDelimiter \/ S!SkipDelimiter \/ S!StoreChar \/ S!DropChar
        \/ S!PollDone \/ S!Finish \/ S!mc_stream_write
        \/ mc_assert_handler \/ UNCHANGED stream
    BY <1>5 DEF Run, ReadOn, HandleLine, Write, ReadCell, AnswerToggle, Finish,
       DumpReturns, PrintNext, LogReturns, Halt, Asserts
  <2> QED BY <1>1, <1>2, <2>1, UpdateIs, StreamCallsAre DEF SP!Next
<1>6. CASE Receive \/ HwChanges
  BY <1>6, WorldIs DEF SP!IInv, SP!Next
<1>7. CASE UNCHANGED fvars
  BY <1>1, <1>7 DEF fvars
<1> QED BY <1>3, <1>4, <1>5, <1>6, <1>7 DEF FirmwareNext

LEMMA StreamStart == FirmwareInit => SP!Init
BY DEF FirmwareInit, S!Init, SP!Init

\* What StreamProofs proves of a stream holds of the stream of the program.
StreamInv == SP!IInv

LEMMA StreamHolds == FirmwareSpec => []StreamInv
<1>1. FirmwareInit => StreamInv
  BY StreamStart, StreamAssumed, SP!InitSafe DEF StreamInv
<1>2. StreamInv /\ [FirmwareNext]_fvars => StreamInv'
  BY StreamStep, StreamAssumed, SP!StepSafe DEF StreamInv
<1> QED BY <1>1, <1>2, PTL DEF FirmwareSpec

\* What a step of the program does to the stream.
StreamMove ==
    \/ UNCHANGED stream
    \/ mc_stream_init /\ S!mc_stream_init /\ wire' = wire
    \/ S!mc_stream_write /\ (Write \/ PrintNext)
    \/ mc_sys_console_init /\ S!mc_stream_register_rx_callback
    \/ BeginUpdate /\ S!BeginUpdate
    \/ ReadOn /\ (S!ReadDelimiter \/ S!SkipDelimiter \/ S!StoreChar \/ S!DropChar)
    \/ ReadOn /\ S!PollDone
    \/ Finish /\ S!Finish
    \/ Receive /\ arrived < Len(Sent) /\ S!Arrive(Sent[arrived + 1])
    \/ HwChanges /\ S!HwChanges

LEMMA StreamMoves == [FirmwareNext]_fvars => StreamMove
<1> SUFFICES ASSUME [FirmwareNext]_fvars PROVE StreamMove
  OBVIOUS
<1> USE DEF StreamMove
<1>1. mc_assert_handler => UNCHANGED stream
  BY DEF mc_assert_handler
<1>2. CASE Setup
  BY <1>1, <1>2 DEF Setup, mc_stream_init, mc_sys_console_init, InitSystem, mc_debug_init,
     mc_debug_set_level, _mc_log, DumpSystems, Asserts
<1>3. CASE BeginUpdate
  BY <1>1, <1>3 DEF BeginUpdate, Asserts
<1>4. CASE Run
  BY <1>1, <1>4 DEF Run, ReadOn, HandleLine, Write, ReadCell, AnswerToggle, Finish,
     DumpReturns, PrintNext, LogReturns, Halt, Asserts
<1>5. CASE Receive \/ HwChanges
  BY <1>5 DEF Receive, HwChanges
<1>6. CASE UNCHANGED fvars
  BY <1>6 DEF fvars
<1> QED BY <1>2, <1>3, <1>4, <1>5, <1>6 DEF FirmwareNext

-----------------------------------------------------------------------------
(* The lines that the console is given                                     *)

\* Only what the user sent is in the buffer, and a callback is shown a message
\* of it.
LinesArrive ==
    /\ wire \in Seq(Characters)
    /\ \A i \in 0..(index - 1) : buffer[i] \in Characters
    /\ at = "dispatch" => inbox # <<>> /\ inbox[Len(inbox)] \in Texts

LEMMA StreamTyped ==
    ASSUME StreamInv
    PROVE  /\ wire \in Seq(S!Chars) /\ hw \in HwStates /\ arrived \in Nat
           /\ DOMAIN buffer = 0..(RxLen - 1) /\ index \in 0..(RxLen - 1) /\ RxLen \in Nat \ {0}
           /\ mode = "TEXT_LINE" /\ at \in {"idle", "reading", "dispatch"}
           /\ \E T : inbox \in Seq(T) /\ S!Message \in T
           /\ at = "reading" => ~ready
           /\ status \subseteq SP!Flags /\ hw \subseteq SP!Flags
           /\ HwStates \subseteq SUBSET SP!Flags
           /\ was \in BOOLEAN /\ dropped \in BOOLEAN /\ cut \in BOOLEAN
<1>1. SP!TypeOK /\ SP!ReadyIsBinary
  BY DEF StreamInv, SP!IInv
<1>2. Len(Sent) \in Nat
  BY FirmwareAssumption
<1>3. RxLen \in Nat \ {0} /\ HwStates \subseteq SUBSET SP!Flags
  BY StreamAssumed DEF SP!StreamAssumption
<1>4. SP!Message \in Seq(SP!Chars \union {NUL})
  BY <1>1, StreamAssumed, SP!MessageType
<1>5. S!Message = SP!Message /\ S!Chars = SP!Chars
  BY StreamTerms DEF S!Chars, SP!Chars
<1> QED BY <1>1, <1>2, <1>3, <1>4, <1>5
        DEF SP!TypeOK, SP!ReadyIsBinary, Modes, MaxArrivals

LEMMA LinesStart == FirmwareInit => LinesArrive
<1>1. <<>> \in Seq(Characters) /\ 0..(0 - 1) = {}
  OBVIOUS
<1> QED BY <1>1 DEF FirmwareInit, S!Init, LinesArrive

LEMMA LinesStep ==
    ASSUME StreamInv, LinesArrive, [FirmwareNext]_fvars
    PROVE  LinesArrive'
<1>1. /\ wire \in Seq(Characters) /\ DOMAIN buffer = 0..(RxLen - 1)
      /\ index \in 0..(RxLen - 1) /\ RxLen \in Nat \ {0}
      /\ \A i \in 0..(index - 1) : buffer[i] \in Characters
  BY StreamTyped DEF LinesArrive
<1>2. CASE ReadOn /\ (S!ReadDelimiter \/ S!SkipDelimiter \/ S!StoreChar \/ S!DropChar)
  <2>1. /\ at = "reading" /\ wire # <<>> /\ wire' = Tail(wire)
    BY <1>2 DEF S!ReadDelimiter, S!SkipDelimiter, S!StoreChar, S!DropChar, S!Reads
  <2>2. wire' \in Seq(Characters) /\ Head(wire) \in Characters
    BY <1>1, <2>1
  <2>3. CASE S!ReadDelimiter
    <3>1. /\ index > 0 /\ buffer' = [buffer EXCEPT ![index] = NUL] /\ index' = index
          /\ inbox' = Append(inbox, S!Message)
      BY <2>3 DEF S!ReadDelimiter
    <3>2. \A i \in 0..(index - 1) : i \in DOMAIN buffer /\ i # index
      BY <1>1
    <3>3. \A i \in 0..(index' - 1) : buffer'[i] \in Characters
      BY <1>1, <3>1, <3>2
    <3>4. S!Message \in Texts
      <4>1. index \in 1..(RxLen - 1)
        BY <1>1, <3>1
      <4>2. \A i \in 1..index : i - 1 \in 0..(index - 1)
        BY <1>1
      <4>3. S!Message \in [1..index -> Characters]
        BY <1>1, <4>2 DEF S!Message
      <4> QED BY <4>1, <4>3 DEF Texts
    <3>5. inbox' # <<>> /\ inbox'[Len(inbox')] = S!Message
      BY <3>1, StreamTyped
    <3> QED BY <2>2, <3>3, <3>4, <3>5 DEF LinesArrive
  <2>4. CASE S!SkipDelimiter \/ S!DropChar
    <3>1. index' = index /\ buffer' = buffer /\ at' = at
      BY <2>4 DEF S!SkipDelimiter, S!DropChar
    <3> QED BY <1>1, <2>1, <2>2, <3>1 DEF LinesArrive
  <2>5. CASE S!StoreChar
    <3>1. /\ buffer' = [buffer EXCEPT ![index] = Head(wire)] /\ index' = index + 1
          /\ at' = at
      BY <2>5 DEF S!StoreChar
    <3>2. \A i \in 0..(index' - 1) : i \in DOMAIN buffer /\ (i = index \/ i \in 0..(index - 1))
      <4>1. index < RxLen - 1
        BY <2>5 DEF S!StoreChar
      <4> QED BY <1>1, <3>1, <4>1
    <3>3. \A i \in 0..(index' - 1) : buffer'[i] \in Characters
      BY <1>1, <2>2, <3>1, <3>2
    <3> QED BY <2>1, <2>2, <3>1, <3>3 DEF LinesArrive
  <2> QED BY <1>2, <2>3, <2>4, <2>5
<1>3. CASE Receive /\ arrived < Len(Sent) /\ S!Arrive(Sent[arrived + 1])
  <2>1. arrived + 1 \in DOMAIN Sent
    BY <1>3, StreamTyped, FirmwareAssumption
  <2>2. Sent[arrived + 1] \in Characters
    BY <2>1 DEF Characters
  <2>3. wire' = Append(wire, Sent[arrived + 1]) /\ UNCHANGED <<buffer, index, at, inbox>>
    BY <1>3 DEF S!Arrive, S!state, S!locals, S!history
  <2>4. wire' \in Seq(Characters)
    BY <1>1, <2>2, <2>3
  <2> QED BY <2>3, <2>4 DEF LinesArrive
<1>4. CASE S!Finish \/ (S!mc_stream_init /\ wire' = wire)
  <2>1. wire' = wire /\ index' = 0 /\ at' = "idle"
    BY <1>4 DEF S!Finish, S!mc_stream_init, S!driver
  <2>2. 0..(0 - 1) = {}
    OBVIOUS
  <2> QED BY <1>1, <2>1, <2>2 DEF LinesArrive
<1>5. CASE ReadOn /\ S!PollDone
  <2>1. at = "reading"
    BY <1>5 DEF S!PollDone, S!NoMore
  <2>2. ~ready
    BY <2>1, StreamTyped
  <2>3. at' = "idle" /\ UNCHANGED <<wire, index, buffer>>
    BY <1>5, <2>2 DEF S!PollDone, S!driver
  <2> QED BY <1>1, <2>3 DEF LinesArrive
<1>6. CASE BeginUpdate /\ S!BeginUpdate
  <2>1. at' = "reading" /\ UNCHANGED <<wire, index, buffer>>
    BY <1>6 DEF S!BeginUpdate, S!driver, S!state
  <2> QED BY <1>1, <2>1 DEF LinesArrive
<1>7. CASE \/ UNCHANGED stream
           \/ S!mc_stream_write
           \/ S!mc_stream_register_rx_callback
           \/ S!HwChanges
  <2>1. UNCHANGED <<wire, index, buffer, at, inbox>>
    BY <1>7 DEF stream, S!mc_stream_write, S!mc_stream_register_rx_callback, S!HwChanges,
       S!driver, S!state, S!locals, S!history
  <2> QED BY <2>1 DEF LinesArrive
<1> QED BY <1>2, <1>3, <1>4, <1>5, <1>6, <1>7, StreamMoves DEF StreamMove

\* The console is given lines.
LEMMA LineIsGiven ==
    ASSUME LinesArrive, at = "dispatch"
    PROVE  Parse(inbox[Len(inbox)]) \in Lines
BY FirmwareAssumption DEF LinesArrive

-----------------------------------------------------------------------------
(* The console, the log and the assertions in the program                  *)

Prints == {"head", "text", "end"}
Printed == Prints \cup {"torn"}

\* Once the program has crashed, the report of it may run on in a frame that
\* was begun; until then the console is as it is on its own.
ConsoleKept ==
    /\ ConsoleTypeOK /\ FramesAreWhole
    /\ frame \in Seq(Pieces \cup {STX, "old"} \cup Prints)
    /\ crashed = "no" => ConsoleInv

\* Calls nest: a message is printed while nothing else is under way, unless it
\* is the report of a crash; a dump ends before an update begins, and a line
\* before its update does; and nothing crashes once a line is done with.
CallsNest ==
    /\ taken => at = "dispatch" /\ listening
    /\ at = "reading" \/ (at = "dispatch" /\ ~taken) => outcome # "busy"
    /\ crashed = "no" /\ (at # "idle" \/ said # <<>> \/ outcome = "busy")
         => log = <<>> /\ printed = <<>>
    /\ at = "dispatch" /\ taken /\ outcome # "busy" => crashed = "no"

\* What came out of a message and what is still to be printed make it up.
LogInOrder ==
    \/ /\ log = <<>> /\ printed \in Seq(Printed)
       /\ printed # <<>> /\ well => printed = Message
    \/ log = Message /\ printed = <<>>
    \/ /\ log = <<"text", "end">>
       /\ \E a \in Printed : printed = <<a>> /\ (well => a = "head")
    \/ /\ log = <<"end">>
       /\ \E a, b \in Printed : /\ printed = <<a, b>>
                                /\ well => a = "head" /\ b = "text"

ProgramTyped ==
    /\ up \subseteq Tops \union {"stream", "console"}
    /\ debug \in BOOLEAN /\ level \in LogLevels
    /\ crashed \in {"no", "reporting", "halted"}
    /\ taken \in BOOLEAN /\ well \in BOOLEAN /\ before \in BOOLEAN

LEMMA KeptIfInv ==
    ASSUME ConsoleInv
    PROVE  ConsoleKept
<1> DEFINE T == Pieces \cup {STX, "old"} \cup Prints
<1>1. STX \in T /\ "old" \in T /\ Pieces \cup {STX} \subseteq T
  OBVIOUS
<1> HIDE DEF T
<1>2. <<>> \in Seq(T) /\ <<STX, "old">> \in Seq(T)
  BY <1>1
<1>3. \A s \in Seq(Pieces \cup {STX}) : s \in Seq(T)
  BY <1>1
<1>4. frame \in Seq(T)
  BY <1>2, <1>3 DEF ConsoleInv, Between, Starting, Answering, Apart, Old, Begun
<1> QED BY <1>4, InvIsConsoleTyped, InvIsWhole DEF ConsoleKept, T

LEMMA KeptIfSame ==
    ASSUME ConsoleKept, UNCHANGED console, crashed' = "no" => crashed = "no"
    PROVE  ConsoleKept'
<1>1. UNCHANGED <<dev, target, pending, reply, line, todo, said, outcome, frame, got>>
  BY DEF console, systems, answer
<1>2. ConsoleInv => ConsoleInv'
  BY <1>1 DEF ConsoleInv, SystemInv, Between, Starting, Answering
<1> QED BY <1>1, <1>2 DEF ConsoleKept, ConsoleTypeOK, TypeOK, FramesAreWhole

LEMMA KeptNext == ConsoleInv' => ConsoleKept'
BY KeptIfInv, PTL

\* A message, or the report of a crash, changes nothing that the console knows
\* of; before a crash it does not even reach the peer's frame.
LEMMA PrintKeeps ==
    ASSUME ConsoleKept, CallsNest, LogInOrder, PrintNext
    PROVE  ConsoleKept'
<1> DEFINE piece == Head(log)
<1>1. /\ UNCHANGED <<systems, reply, line, todo, said, outcome, got, crashed>>
      /\ frame' = Received(piece)
  BY DEF PrintNext
<1>2. piece \in Prints
  <2>1. Head(Message) = "head" /\ Head(<<"text", "end">>) = "text" /\ Head(<<"end">>) = "end"
    BY DEF Message
  <2> QED BY <2>1 DEF LogInOrder, PrintNext, Prints
<1>3. piece \notin {STX, ETX}
  BY <1>2 DEF Prints, STX, ETX
<1>4. frame' = IF frame \in Apart THEN frame ELSE Append(frame, piece)
  BY <1>1, <1>3, ReceivedIs
<1> HIDE DEF piece
<1>5. CASE crashed = "no"
  <2>1. outcome # "busy"
    BY <1>5 DEF CallsNest, PrintNext
  <2>2. ConsoleInv /\ frame \in Apart
    BY <1>5, <2>1 DEF ConsoleKept, ConsoleInv, Between, Starting, Answering
  <2>3. UNCHANGED console
    BY <1>1, <1>4, <2>2 DEF console, answer
  <2> QED BY <1>1, <2>3, KeptIfSame
<1>6. CASE crashed # "no"
  <2> DEFINE T == Pieces \cup {STX, "old"} \cup Prints
  <2>1. piece \in T /\ frame \in Seq(T)
    BY <1>2 DEF ConsoleKept
  <2> HIDE DEF T
  <2>2. frame' \in Seq(T)
    BY <1>4, <2>1
  <2>3. frame # <<>> => Append(frame, piece)[1] = frame[1]
    BY <2>1
  <2>4. frame' # <<>> => frame' [1] = STX
    BY <1>4, <2>3 DEF ConsoleKept, ConsoleTypeOK, Apart
  <2>5. UNCHANGED <<dev, target, pending, reply, line, todo, said, outcome, got>>
    BY <1>1 DEF systems
  <2> QED BY <1>1, <1>6, <2>2, <2>4, <2>5
          DEF T, ConsoleKept, ConsoleTypeOK, TypeOK, FramesAreWhole
<1> QED BY <1>5, <1>6

\* A call that returns leaves the console ready for the next.
LEMMA ForgetKeeps ==
    ASSUME ConsoleInv, outcome # "busy", Forget, UNCHANGED <<systems, line, todo, frame>>
    PROVE  ConsoleInv'
<1>1. /\ UNCHANGED <<dev, target, pending, line, todo, frame>>
      /\ said' = <<>> /\ got' = <<>> /\ outcome' = "done" /\ reply' = Quiet
  BY DEF Forget, systems
<1>2. SystemInv'
  BY <1>1, QuietIsOK DEF ConsoleInv, SystemInv
<1>3. Between
  BY DEF ConsoleInv, Starting, Answering
<1>4. Between'
  BY <1>1, <1>3 DEF Between
<1> QED BY <1>1, <1>2, <1>4 DEF ConsoleInv

\* What a step of the program does to the console.
ConsoleMove ==
    \/ UNCHANGED console /\ (crashed' = "no" => crashed = "no")
    \/ PrintNext
    \/ /\ HandleLine /\ crashed = "no" /\ outcome # "busy"
       /\ \E l \in Lines : Commanded(l) \subseteq up /\ process_command(l)
    \/ crashed = "no" /\ mc_sys_console_dump
    \/ crashed = "no" /\ Write /\ Writing /\ (Taken \/ Failed)
    \/ crashed = "no" /\ Head(todo).system \in up /\ ReadNext
    \/ crashed = "no" /\ ToggleAnswered
    \/ \E s \in Tops : InitSystem(s)
    \/ /\ crashed = "no" /\ outcome # "busy"
       /\ Forget /\ UNCHANGED <<systems, line, todo, frame>>

LEMMA ConsoleMoves ==
    ASSUME StreamInv, LinesArrive, CallsNest, [FirmwareNext]_fvars
    PROVE  ConsoleMove
<1> USE DEF ConsoleMove
<1>1. mc_assert_handler => UNCHANGED console /\ crashed' # "no"
  BY DEF mc_assert_handler
<1>2. CASE Setup
  BY <1>1, <1>2 DEF Setup, mc_stream_init, mc_sys_console_init, mc_debug_init,
     mc_debug_set_level, _mc_log, DumpSystems, Asserts, Main
<1>3. CASE BeginUpdate
  BY <1>1, <1>3 DEF BeginUpdate, Asserts, program
<1>4. CASE HandleLine
  BY <1>1, <1>4, LineIsGiven DEF HandleLine, Asserts, CallsNest
<1>5. CASE Write
  <2>1. FailedWith(Head(todo).what) => Failed
    BY DEF Failed
  <2> QED BY <1>5, <2>1 DEF Write
<1>6. CASE ReadCell \/ AnswerToggle
  BY <1>1, <1>6 DEF ReadCell, AnswerToggle, Asserts
<1>7. CASE Finish \/ DumpReturns
  BY <1>7 DEF Finish, DumpReturns, Returned, CallsNest, S!Finish
<1>8. CASE ReadOn \/ LogReturns \/ Halt \/ Receive \/ HwChanges
  BY <1>8 DEF ReadOn, LogReturns, Halt, Receive, HwChanges, program
<1>9. CASE UNCHANGED fvars
  BY <1>9 DEF fvars, program
<1> QED BY <1>2, <1>3, <1>4, <1>5, <1>6, <1>7, <1>8, <1>9 DEF FirmwareNext, Run

LEMMA ConsoleKeeps ==
    ASSUME StreamInv, LinesArrive, ConsoleKept, CallsNest, LogInOrder, [FirmwareNext]_fvars
    PROVE  ConsoleKept'
<1>1. crashed = "no" => ConsoleInv
  BY DEF ConsoleKept
<1>2. CASE UNCHANGED console /\ (crashed' = "no" => crashed = "no")
  BY <1>2, KeptIfSame
<1>3. CASE PrintNext
  BY <1>3, PrintKeeps
<1>4. ASSUME NEW l \in Lines, crashed = "no", outcome # "busy", process_command(l)
      PROVE  ConsoleKept'
  BY <1>1, <1>4, LineStep, KeptNext
<1>5. CASE crashed = "no" /\ mc_sys_console_dump
  BY <1>1, <1>5, DumpStep, KeptNext
<1>6. CASE crashed = "no" /\ Write /\ Writing /\ (Taken \/ Failed)
  BY <1>1, <1>6, TakenStep, FailedStep, KeptNext
<1>7. CASE crashed = "no" /\ ReadNext
  BY <1>1, <1>7, ReadNextStep, KeptNext
<1>8. CASE crashed = "no" /\ ToggleAnswered
  BY <1>1, <1>8, ToggleAnsweredStep, KeptNext
<1>9. ASSUME NEW s \in Tops, InitSystem(s) PROVE ConsoleKept'
  <2>1. crashed = "no" /\ outcome # "busy" /\ leaf_init(ToSet(LeafOrder[s])) /\ UNCHANGED answer
    BY <1>9 DEF InitSystem, Main, mc_sys_init
  <2>2. Between
    BY <1>1, <2>1 DEF ConsoleInv, Starting, Answering
  <2>3. SystemInv'
    BY <1>1, <2>1, <2>2, LeafInitStep DEF ConsoleInv, Between
  <2>4. Between' /\ line' = line
    BY <2>1, <2>2 DEF Between, answer, leaf_init
  <2>5. ConsoleInv'
    BY <1>1, <2>1, <2>3, <2>4 DEF ConsoleInv
  <2> QED BY <2>5, KeptNext
<1>10. CASE /\ crashed = "no" /\ outcome # "busy"
            /\ Forget /\ UNCHANGED <<systems, line, todo, frame>>
  BY <1>1, <1>10, ForgetKeeps, KeptNext
<1> QED BY <1>2, <1>3, <1>4, <1>5, <1>6, <1>7, <1>8, <1>9, <1>10, ConsoleMoves
        DEF ConsoleMove

\* A console that writes or reads a cell has a line in hand, or a dump.
LEMMA WorksWhenBusy ==
    ASSUME ConsoleKept, crashed = "no", todo # <<>>
    PROVE  outcome = "busy"
BY DEF ConsoleKept, ConsoleTypeOK

LEMMA NestKeeps ==
    ASSUME StreamInv, ConsoleKept, CallsNest, [FirmwareNext]_fvars
    PROVE  CallsNest'
<1>1. ASSUME mc_assert_handler, UNCHANGED up, crashed = "no",
             at # "dispatch" \/ ~taken \/ outcome = "busy"
      PROVE  CallsNest'
  BY <1>1 DEF mc_assert_handler, stream, console, answer, CallsNest
<1>2. CASE mc_stream_init
  BY <1>2 DEF mc_stream_init, S!mc_stream_init, Main, console, answer, CallsNest
<1>3. CASE mc_sys_console_init
  <2>1. CASE mc_assert_handler
    BY <1>3, <2>1 DEF mc_sys_console_init, Main, mc_assert_handler, stream, console, answer,
       CallsNest
  <2>2. CASE S!mc_stream_register_rx_callback
    <3>1. at' = at /\ listening' = TRUE
      BY <2>2 DEF S!mc_stream_register_rx_callback, S!locals
    <3>2. UNCHANGED <<said, outcome, taken>> /\ Main
      BY <1>3 DEF mc_sys_console_init, mc_assert_handler, console, answer
    <3> QED BY <3>1, <3>2 DEF Main, CallsNest
  <2> QED BY <1>3, <2>1, <2>2 DEF mc_sys_console_init
<1>4. CASE \E s \in Tops : InitSystem(s)
  BY <1>4 DEF InitSystem, stream, answer, CallsNest
<1>5. CASE \/ \E given \in BOOLEAN : mc_debug_init(given)
           \/ \E l \in LogLevels : mc_debug_set_level(l) \/ _mc_log(l)
  BY <1>5 DEF mc_debug_init, mc_debug_set_level, _mc_log, Main, stream, console, answer,
     CallsNest
<1>6. CASE DumpSystems
  BY <1>1, <1>6 DEF DumpSystems, Asserts, Main, program, stream, CallsNest
<1>7. CASE BeginUpdate
  BY <1>1, <1>7 DEF BeginUpdate, Asserts, Main, S!BeginUpdate, S!state, console, answer, program, CallsNest
<1>8. CASE ReadOn
  <2>1. at = "reading" /\ listening' = listening
    BY <1>8 DEF ReadOn, S!ReadDelimiter, S!SkipDelimiter, S!StoreChar, S!DropChar, S!PollDone,
       S!NoMore, S!Reads
  <2> QED BY <1>8, <2>1 DEF ReadOn, console, answer, program, CallsNest
<1>9. CASE HandleLine
  BY <1>1, <1>9 DEF HandleLine, Asserts, stream, CallsNest
<1>10. CASE Write
  <2>1. todo # <<>> /\ outcome = "busy"
    BY <1>10, WorksWhenBusy DEF Write, Writing
  <2>2. UNCHANGED <<at, listening>>
    BY <1>10 DEF Write, S!mc_stream_write, S!locals
  <2> QED BY <1>10, <2>1, <2>2 DEF Write, CallsNest
<1>11. CASE ReadCell
  <2>1. outcome = "busy"
    BY <1>11, WorksWhenBusy DEF ReadCell
  <2> QED BY <1>1, <1>11, <2>1 DEF ReadCell, Asserts, ReadNext, program, stream, CallsNest
<1>12. CASE AnswerToggle
  BY <1>12 DEF AnswerToggle, ToggleAnswered, program, stream, CallsNest
<1>13. CASE Finish
  BY <1>13 DEF Finish, S!Finish, Forget, CallsNest
<1>14. CASE DumpReturns
  BY <1>14 DEF DumpReturns, Forget, stream, CallsNest
<1>15. CASE PrintNext
  BY <1>15 DEF PrintNext, S!mc_stream_write, S!locals, CallsNest
<1>16. CASE LogReturns \/ Halt
  BY <1>16 DEF LogReturns, Halt, stream, console, answer, CallsNest
<1>17. CASE Receive \/ HwChanges
  BY <1>17 DEF Receive, HwChanges, S!Arrive, S!HwChanges, S!locals, S!state, console, answer, program,
     CallsNest
<1>18. CASE UNCHANGED fvars
  BY <1>18 DEF fvars, stream, console, answer, program, CallsNest
<1> QED BY <1>2, <1>3, <1>4, <1>5, <1>6, <1>7, <1>8, <1>9, <1>10, <1>11, <1>12, <1>13,
           <1>14, <1>15, <1>16, <1>17, <1>18 DEF FirmwareNext, Setup, Run

\* What a step of the program does to the message in hand.
LogMove ==
    \/ UNCHANGED <<log, printed, well>>
    \/ log' = Message /\ printed = <<>> /\ printed' = <<>>
    \/ log = <<>> /\ log' = <<>> /\ printed = <<>> /\ printed' = <<>>
    \/ PrintNext \/ LogReturns

LEMMA LogMoves ==
    ASSUME ConsoleKept, CallsNest, [FirmwareNext]_fvars
    PROVE  LogMove
<1> USE DEF LogMove
<1>1. ASSUME mc_assert_handler, log = <<>>, printed = <<>> PROVE LogMove
  BY <1>1 DEF mc_assert_handler
<1>2. CASE Setup \/ BeginUpdate
  <2>1. Main => log = <<>> /\ printed = <<>>
    BY DEF Main
  <2> QED BY <1>1, <1>2, <2>1 DEF Setup, mc_stream_init, mc_sys_console_init, InitSystem,
             mc_debug_init, mc_debug_set_level, _mc_log, DumpSystems, BeginUpdate, Asserts,
             program
<1>3. CASE HandleLine
  BY <1>1, <1>3 DEF HandleLine, Asserts, CallsNest
<1>4. CASE Write \/ ReadCell
  <2>1. crashed = "no" /\ todo # <<>>
    BY <1>4 DEF Write, Writing, ReadCell
  <2>2. log = <<>> /\ printed = <<>>
    BY <2>1, WorksWhenBusy DEF CallsNest
  <2> QED BY <1>1, <1>4, <2>2 DEF Write, ReadCell, Asserts, program
<1>5. CASE Finish \/ DumpReturns
  <2>1. log = <<>> /\ printed = <<>>
    BY <1>5 DEF Finish, S!Finish, DumpReturns, CallsNest
  <2> QED BY <1>5, <2>1 DEF Finish, DumpReturns
<1>6. CASE ReadOn \/ AnswerToggle \/ Halt \/ Receive \/ HwChanges \/ UNCHANGED fvars
  BY <1>6 DEF ReadOn, AnswerToggle, Halt, Receive, HwChanges, fvars, program
<1> QED BY <1>2, <1>3, <1>4, <1>5, <1>6 DEF FirmwareNext, Run

LEMMA Appended ==
    ASSUME NEW T, NEW a \in T, NEW b \in T, NEW c \in T
    PROVE  Append(<<a>>, b) = <<a, b>> /\ Append(<<a, b>>, c) = <<a, b, c>>
<1> DEFINE s1 == <<a>>
           s2 == <<a, b>>
           s3 == <<a, b, c>>
<1>1. s1 \in Seq(T) /\ Len(s1) = 1 /\ s1[1] = a
  OBVIOUS
<1>2. s2 \in Seq(T) /\ Len(s2) = 2 /\ s2[1] = a /\ s2[2] = b
  OBVIOUS
<1>3. s3 \in Seq(T) /\ Len(s3) = 3 /\ s3[1] = a /\ s3[2] = b /\ s3[3] = c
  OBVIOUS
<1> HIDE DEF s1, s2, s3
<1>4. ASSUME NEW s \in Seq(T), NEW t \in Seq(T), NEW e \in T, Len(t) = Len(s) + 1,
             \A i \in 1..Len(s) : t[i] = s[i], t[Len(s) + 1] = e
      PROVE  Append(s, e) = t
  <2>1. Append(s, e) \in Seq(T) /\ Len(Append(s, e)) = Len(t)
    BY <1>4, AppendProperties
  <2>2. \A i \in 1..Len(Append(s, e)) : Append(s, e)[i] = t[i]
    BY <1>4, AppendProperties
  <2> QED BY <2>1, <2>2, SeqEqual
<1>5. Append(s1, b) = s2
  <2>1. \A i \in 1..Len(s1) : s2[i] = s1[i]
    BY <1>1, <1>2
  <2>2. Len(s2) = Len(s1) + 1 /\ s2[Len(s1) + 1] = b
    BY <1>1, <1>2
  <2> QED BY <1>1, <1>2, <1>4, <2>1, <2>2, Zenon
<1>6. Append(s2, c) = s3
  <2>1. \A i \in 1..Len(s2) : s3[i] = s2[i]
    BY <1>2, <1>3
  <2>2. Len(s3) = Len(s2) + 1 /\ s3[Len(s2) + 1] = c
    BY <1>2, <1>3
  <2> QED BY <1>2, <1>3, <1>4, <2>1, <2>2, Zenon
<1> QED BY <1>5, <1>6 DEF s1, s2, s3

\* The prints of a message come one after the other, and none is left out.
LEMMA LogKeeps ==
    ASSUME ConsoleKept, CallsNest, LogInOrder, [FirmwareNext]_fvars
    PROVE  LogInOrder'
<1>1. CASE UNCHANGED <<log, printed, well>>
  BY <1>1 DEF LogInOrder
<1>2. CASE printed' = <<>> /\ (log' = Message \/ log' = <<>>)
  <2>1. <<>> \in Seq(Printed)
    OBVIOUS
  <2> QED BY <1>2, <2>1 DEF LogInOrder
<1>3. CASE PrintNext
  <2> DEFINE piece == IF hw = {} THEN Head(log) ELSE "torn"
  <2>1. /\ log # <<>> /\ log' = Tail(log) /\ printed' = Append(printed, piece)
        /\ well' = (well /\ hw = {})
    BY <1>3 DEF PrintNext, PrintsLeft
  <2>2. "head" \in Printed /\ "text" \in Printed /\ "end" \in Printed /\ "torn" \in Printed
    BY DEF Printed, Prints
  <2>3. CASE log = Message /\ printed = <<>>
    <3>1. Head(log) = "head" /\ Tail(log) = <<"text", "end">> /\ printed' = <<piece>>
      BY <2>1, <2>3 DEF Message
    <3>2. piece \in Printed /\ (well' => piece = "head")
      BY <2>1, <2>2, <3>1
    <3> HIDE DEF piece
    <3> QED BY <2>1, <3>1, <3>2 DEF LogInOrder
  <2>4. ASSUME log = <<"text", "end">>, NEW a \in Printed, printed = <<a>>, well => a = "head"
        PROVE  LogInOrder'
    <3>1. Head(log) = "text" /\ Tail(log) = <<"end">>
      BY <2>4
    <3>2. piece \in Printed /\ (well' => a = "head" /\ piece = "text")
      BY <2>1, <2>2, <2>4, <3>1
    <3> HIDE DEF piece
    <3>4. printed' = <<a, piece>>
      BY <2>1, <2>4, <3>2, Appended
    <3> QED BY <2>1, <2>4, <3>1, <3>2, <3>4 DEF LogInOrder
  <2>5. ASSUME log = <<"end">>, NEW a \in Printed, NEW b \in Printed, printed = <<a, b>>,
               well => a = "head" /\ b = "text"
        PROVE  LogInOrder'
    <3>1. Head(log) = "end" /\ Tail(log) = <<>>
      BY <2>5
    <3>2. piece \in Printed /\ (well' => a = "head" /\ b = "text" /\ piece = "end")
      BY <2>1, <2>2, <2>5, <3>1
    <3> HIDE DEF piece
    <3>3. <<a, b, piece>> \in Seq(Printed)
      BY <2>5, <3>2
    <3>5. printed' = <<a, b, piece>>
      BY <2>1, <2>5, <3>2, Appended
    <3>4. well' => printed' = Message
      BY <3>2, <3>5 DEF Message
    <3> QED BY <2>1, <3>1, <3>3, <3>4, <3>5 DEF LogInOrder
  <2> QED BY <2>1, <2>3, <2>4, <2>5 DEF LogInOrder
<1>4. CASE LogReturns
  BY <1>2, <1>4 DEF LogReturns
<1> QED BY <1>1, <1>2, <1>3, <1>4, LogMoves DEF LogMove

LEMMA TypesKeep ==
    ASSUME StreamInv, ProgramTyped, [FirmwareNext]_fvars
    PROVE  ProgramTyped'
<1> USE DEF ProgramTyped
<1>1. mc_assert_handler /\ up' \subseteq Tops \union {"stream", "console"} => ProgramTyped'
  BY DEF mc_assert_handler
<1>2. CASE Setup \/ BeginUpdate
  <2>1. CASE DumpSystems \/ BeginUpdate
    BY <1>1, <2>1 DEF DumpSystems, BeginUpdate, Asserts, program
  <2>2. CASE mc_sys_console_init
    BY <1>1, <2>2 DEF mc_sys_console_init
  <2> QED BY <1>2, <2>1, <2>2 DEF Setup, mc_stream_init, InitSystem, mc_debug_init,
             mc_debug_set_level, _mc_log
<1>3. CASE HandleLine \/ ReadCell
  BY <1>1, <1>3 DEF HandleLine, ReadCell, Asserts, program
<1>5. CASE Finish
  BY <1>5, StreamTyped DEF Finish, Forget
<1>6. CASE ReadOn \/ Write \/ AnswerToggle \/ DumpReturns \/ PrintNext \/ LogReturns \/ Halt
  BY <1>6 DEF ReadOn, Write, AnswerToggle, DumpReturns, PrintNext, LogReturns, Halt,
     program, Forget
<1>4. CASE Receive \/ HwChanges \/ UNCHANGED fvars
  BY <1>4 DEF Receive, HwChanges, fvars, program
<1> QED BY <1>2, <1>3, <1>4, <1>5, <1>6 DEF FirmwareNext, Run

-----------------------------------------------------------------------------
(* The program                                                             *)

ProgramInv ==
    /\ StreamInv /\ LinesArrive
    /\ ConsoleKept /\ CallsNest /\ LogInOrder /\ ProgramTyped

LEMMA ProgramStarts == FirmwareInit => ProgramInv
<1> SUFFICES ASSUME FirmwareInit PROVE ProgramInv
  OBVIOUS
<1>1. StreamInv
  BY StreamStart, StreamAssumed, SP!InitSafe DEF StreamInv
<1>2. ConsoleInv
  <2>1. Init => pending = Idle
    BY DEF Init
  <2> QED BY <2>1, SystemInit DEF FirmwareInit, ConsoleInit, ConsoleInv, Between, Apart
<1>3. CallsNest
  BY DEF FirmwareInit, ConsoleInit, S!Init, CallsNest
<1>4. LogInOrder
  <2>1. <<>> \in Seq(Printed)
    OBVIOUS
  <2> QED BY <2>1 DEF FirmwareInit, LogInOrder
<1>5. ProgramTyped
  BY FirmwareAssumption DEF FirmwareInit, ProgramTyped
<1> QED BY <1>1, <1>2, <1>3, <1>4, <1>5, LinesStart, KeptIfInv DEF ProgramInv

LEMMA ProgramKeeps == ProgramInv /\ [FirmwareNext]_fvars => ProgramInv'
<1> SUFFICES ASSUME ProgramInv, [FirmwareNext]_fvars PROVE ProgramInv'
  OBVIOUS
<1>1. StreamInv'
  BY StreamStep, StreamAssumed, SP!StepSafe DEF ProgramInv, StreamInv
<1> QED BY <1>1, LinesStep, ConsoleKeeps, NestKeeps, LogKeeps, TypesKeep DEF ProgramInv

\* The stream, the console and the log of a program keep each what they keep
\* on their own, and their calls nest.
THEOREM FirmwareSafe == FirmwareSpec => []ProgramInv
BY ProgramStarts, ProgramKeeps, PTL DEF FirmwareSpec

LEMMA InvIsFirmwareTyped == ProgramInv => FirmwareTypeOK
<1> SUFFICES ASSUME ProgramInv PROVE FirmwareTypeOK
  OBVIOUS
<1>1. S!TypeOK
  <2>1. SP!TypeOK
    BY DEF ProgramInv, StreamInv, SP!IInv
  <2>2. S!Items = SP!Items /\ S!Chars = SP!Chars /\ S!Flags = SP!Flags /\ S!Returns = SP!Returns
    BY DEF S!Items, SP!Items, S!Chars, SP!Chars, S!Flags, SP!Flags, S!Returns, SP!Returns
  <2> QED BY <2>1, <2>2 DEF S!TypeOK, SP!TypeOK
<1>2. \E k \in 0..Len(Message) : log = SubSeq(Message, k + 1, Len(Message))
  <2>1. Len(Message) = 3
    BY DEF Message
  <2>2. /\ SubSeq(Message, 1, 3) = Message /\ SubSeq(Message, 2, 3) = <<"text", "end">>
        /\ SubSeq(Message, 3, 3) = <<"end">> /\ SubSeq(Message, 4, 3) = <<>>
    <3>1. Message \in Seq(Prints)
      BY DEF Message, Prints
    <3> DEFINE rest(k) == SubSeq(Message, k, 3)
    <3>2. rest(1) = Message
      BY <2>1, <3>1, SubSeqFull
    <3>3. \A k \in 1..3 : rest(k + 1) = Tail(rest(k))
      BY <2>1, <3>1, HeadTailOfSubSeq
    <3>4. rest(2) = Tail(rest(1)) /\ rest(3) = Tail(rest(2)) /\ rest(4) = Tail(rest(3))
      <4> HIDE DEF rest
      <4> QED BY <3>3
    <3>5. /\ Tail(Message) = <<"text", "end">> /\ Tail(<<"text", "end">>) = <<"end">>
          /\ Tail(<<"end">>) = <<>>
      BY DEF Message
    <3> QED BY <3>2, <3>4, <3>5
  <2>3. log = Message \/ log = <<"text", "end">> \/ log = <<"end">> \/ log = <<>>
    BY DEF ProgramInv, LogInOrder
  <2>4. \E k \in {0, 1, 2, 3} : log = SubSeq(Message, k + 1, 3)
    <3>1. 0 + 1 = 1 /\ 1 + 1 = 2 /\ 2 + 1 = 3 /\ 3 + 1 = 4
      OBVIOUS
    <3> QED BY <2>2, <2>3, <3>1, Zenon
  <2>5. 0..3 = {0, 1, 2, 3}
    OBVIOUS
  <2> QED BY <2>1, <2>4, <2>5
<1>3. printed \in Seq({"head", "text", "end", "torn"})
  <2>1. printed \in Seq(Printed)
    <3>1. /\ <<>> \in Seq(Printed)
          /\ \A a, b \in Printed : <<a>> \in Seq(Printed) /\ <<a, b>> \in Seq(Printed)
      OBVIOUS
    <3> QED BY <3>1 DEF ProgramInv, LogInOrder
  <2>2. Printed = {"head", "text", "end", "torn"}
    BY DEF Printed, Prints
  <2> QED BY <2>1, <2>2
<1> QED BY <1>1, <1>2, <1>3 DEF FirmwareTypeOK, ProgramInv, ProgramTyped, ConsoleKept

\* The parts of a whole program keep to their types, whatever it calls.
COROLLARY FirmwareTyped == FirmwareSpec => []FirmwareTypeOK
BY FirmwareSafe, InvIsFirmwareTyped, PTL

\* With the log, a crash report and the console on one stream, a frame that
\* ends at the peer is still the whole answer to one line.
THEOREM FirmwareFrames == FirmwareSpec => []FramesStayWhole
<1>1. ProgramInv => FramesStayWhole
  BY DEF ProgramInv, ConsoleKept, FramesStayWhole
<1> QED BY <1>1, FirmwareSafe, PTL

\* On hardware that is well a message of the log, and the report of a failed
\* assertion, come out as a whole, whatever errors are left in the status.
THEOREM FirmwareLogs == FirmwareSpec => []LogIsWhole
<1>1. ProgramInv => LogIsWhole
  BY DEF ProgramInv, LogInOrder, LogIsWhole, Message
<1> QED BY <1>1, FirmwareSafe, PTL

-----------------------------------------------------------------------------
(* A line that lost characters                                             *)

\* Whatever a line asks for, its answer begins with nothing said.
LEMMA LineBegins ==
    ASSUME NEW l, process_command(l)
    PROVE  got' = <<>> /\ said' = <<>> /\ outcome' = "busy"
<1>1. ASSUME NEW jobs, Begin(l, jobs)
      PROVE  got' = <<>> /\ said' = <<>> /\ outcome' = "busy"
  BY <1>1 DEF Begin
<1>2. ASSUME Reject(l) \/ Answered(l) \/ (\E jobs : Say(l, jobs))
      PROVE  \E jobs : Begin(l, jobs)
  BY <1>2 DEF Reject, Answered, Say
<1>3. ASSUME NEW s, NEW tok, NEW rest, Execute(l, s, tok, rest)
      PROVE  Reject(l) \/ Answered(l)
  BY <1>3 DEF Execute, Input, UserWrite, Function
<1>4. Reject(l) \/ Answered(l) \/ (\E jobs : Say(l, jobs))
  BY <1>3 DEF process_command
<1> QED BY <1>1, <1>2, <1>4

\* Nothing of a message is lost while its callbacks run.
LEMMA LineStays ==
    ASSUME CallsNest, [FirmwareNext]_fvars, taken'
    PROVE  \/ taken /\ UNCHANGED <<at, cut, was, dropped, before>>
           \/ HandleLine /\ (\E l : process_command(l)) /\ UNCHANGED <<stream, before, well, crashed>>
<1>1. CASE Setup
  <2>1. ~taken /\ taken' = taken
    BY <1>1 DEF Setup, Main, CallsNest, mc_stream_init, mc_sys_console_init, mc_assert_handler,
       InitSystem, mc_debug_init, mc_debug_set_level, _mc_log, DumpSystems, Asserts, program
  <2> QED BY <2>1
<1>2. CASE BeginUpdate \/ ReadOn
  <2>1. ~taken /\ taken' = taken
    BY <1>2 DEF BeginUpdate, Main, ReadOn, CallsNest, Asserts, mc_assert_handler, program,
       S!ReadDelimiter, S!SkipDelimiter, S!StoreChar, S!DropChar, S!PollDone, S!NoMore, S!Reads
  <2> QED BY <2>1
<1>3. CASE HandleLine
  BY <1>3 DEF HandleLine, Asserts, mc_assert_handler, stream
<1>4. CASE Write \/ PrintNext
  BY <1>4 DEF Write, PrintNext, S!mc_stream_write, S!locals, S!history
<1>5. CASE Finish
  BY <1>5 DEF Finish
<1>6. CASE ReadCell \/ AnswerToggle \/ DumpReturns \/ LogReturns \/ Halt
  BY <1>6 DEF ReadCell, Asserts, mc_assert_handler, AnswerToggle, DumpReturns, LogReturns, Halt,
     program, stream
<1>7. CASE Receive \/ HwChanges
  BY <1>7 DEF Receive, HwChanges, S!Arrive, S!HwChanges, S!locals, S!history, program
<1>8. CASE UNCHANGED fvars
  BY <1>8 DEF fvars, stream, program
<1> QED BY <1>1, <1>2, <1>3, <1>4, <1>5, <1>6, <1>7, <1>8 DEF FirmwareNext, Run

\* While the overflow bit is set a write returns an error, and does not reach
\* the end of an answer.
CutNotAnswered ==
    at = "dispatch" /\ taken /\ cut =>
        got = <<>> /\ (crashed = "no" /\ outcome = "busy" => said = <<>>)

LEMMA WriteStatus ==
    ASSUME S!mc_stream_write
    PROVE  /\ "RX_OVERFLOW" \in status => ret' # "MC_OK"
           /\ ret' # "MC_OK" /\ hw = {} => "RX_OVERFLOW" \in status
BY DEF S!mc_stream_write, S!ReturnStatus, S!Refreshed, S!convert_status

\* The first write of an answer that fails leaves the peer with nothing.
LEMMA FirstWriteFails ==
    ASSUME ConsoleInv, said = <<>>, Writing, Failed
    PROVE  got' = <<>> /\ outcome' # "busy"
<1>1. /\ got = <<>>
      /\ Head(todo).what = "clear" \/ Head(todo).what = STX
  BY WritingIs DEF Answering, Begun
<1>2. PICK piece \in {Head(todo).what, "torn"} : FailedWith(piece)
  BY DEF Failed
<1>3. piece # ETX
  BY <1>1, ReceivedIs
<1> QED BY <1>1, <1>2, <1>3, ReceivedIs DEF FailedWith

LEMMA CutKeeps ==
    ASSUME ProgramInv, CutNotAnswered, [FirmwareNext]_fvars
    PROVE  CutNotAnswered'
<1> SUFFICES ASSUME at' = "dispatch", taken', cut'
             PROVE  got' = <<>> /\ (crashed' = "no" /\ outcome' = "busy" => said' = <<>>)
  BY DEF CutNotAnswered
<1>1. CASE HandleLine /\ \E l : process_command(l)
  BY <1>1, LineBegins
<1>2. CASE taken /\ UNCHANGED <<at, cut, was, dropped, before>>
  <2>1. got = <<>> /\ (crashed = "no" /\ outcome = "busy" => said = <<>>)
    BY <1>2 DEF CutNotAnswered
  <2>2. "RX_OVERFLOW" \in status
    BY <1>2 DEF ProgramInv, StreamInv, SP!IInv, SP!CutIsFlagged
  <2>3. CASE UNCHANGED console /\ (crashed' = "no" => crashed = "no")
    BY <2>1, <2>3 DEF console, answer
  <2>4. CASE PrintNext
    BY <2>1, <2>4 DEF PrintNext
  <2>5. ASSUME NEW l \in Lines, process_command(l)
        PROVE  got' = <<>> /\ said' = <<>>
    BY <2>5, LineBegins
  <2>6. CASE mc_sys_console_dump
    BY <2>6 DEF mc_sys_console_dump, Say, Begin
  <2>7. CASE crashed = "no" /\ Write /\ Writing /\ (Taken \/ Failed)
    <3>1. Failed
      <4>1. ret' # "MC_OK"
        BY <2>2, <2>7, WriteStatus DEF Write
      <4> QED BY <2>7, <4>1 DEF Write, Failed
    <3>2. outcome = "busy"
      BY <2>7, WorksWhenBusy DEF Writing, ProgramInv
    <3> QED BY <2>1, <2>7, <3>1, <3>2, FirstWriteFails DEF ProgramInv, ConsoleKept
  <2>8. CASE crashed = "no" /\ (ReadNext \/ ToggleAnswered)
    BY <2>1, <2>8 DEF ReadNext, ToggleAnswered
  <2>9. ASSUME NEW s \in Tops, InitSystem(s) PROVE FALSE
    BY <1>2, <2>9 DEF InitSystem, Main, ProgramInv, CallsNest
  <2>10. CASE Forget
    BY <2>10 DEF Forget
  <2> QED BY <2>3, <2>4, <2>5, <2>6, <2>7, <2>8, <2>9, <2>10, ConsoleMoves
          DEF ConsoleMove, ProgramInv
<1> QED BY <1>1, <1>2, LineStays DEF ProgramInv

\* A line that lost characters is never answered, whatever else the program
\* has done to the stream's status meanwhile.
THEOREM FirmwareCuts == FirmwareSpec => []CutLinesGetNoAnswer
<1>1. FirmwareInit => CutNotAnswered
  BY DEF FirmwareInit, S!Init, CutNotAnswered
<1>2. ProgramInv /\ CutNotAnswered /\ [FirmwareNext]_fvars => CutNotAnswered'
  BY CutKeeps
<1>3. CutNotAnswered => CutLinesGetNoAnswer
  BY DEF CutNotAnswered, CutLinesGetNoAnswer
<1> QED BY <1>1, <1>2, <1>3, FirmwareSafe, PTL DEF FirmwareSpec

-----------------------------------------------------------------------------
(* Recovery, for a driver that reports no overflow of its own              *)

\* The overflow bit is set for the message in the buffer or for the one before,
\* and an answer cut short on well hardware was cut by that bit.
OverflowHasCause ==
    /\ SP!BitHasCause
    /\ at # "idle" /\ dropped => cut
    /\ "RX_OVERFLOW" \in status => cut \/ before
    /\ at = "dispatch" /\ taken /\ outcome = "cut" /\ well => cut \/ before

LEMMA BeforeMoves == [FirmwareNext]_fvars => before' = before \/ Finish \/ mc_stream_init
<1> SUFFICES ASSUME [FirmwareNext]_fvars PROVE before' = before \/ Finish \/ mc_stream_init
  OBVIOUS
<1>1. CASE Setup \/ BeginUpdate
  BY <1>1 DEF Setup, BeginUpdate, mc_sys_console_init, mc_assert_handler, InitSystem, Asserts,
     mc_debug_init, mc_debug_set_level, _mc_log, DumpSystems, program
<1>2. CASE Run
  BY <1>2 DEF Run, ReadOn, HandleLine, Write, ReadCell, AnswerToggle, DumpReturns,
     PrintNext, LogReturns, Halt, Asserts, mc_assert_handler, program
<1>3. CASE Receive \/ HwChanges \/ UNCHANGED fvars
  BY <1>3 DEF Receive, HwChanges, fvars, program
<1> QED BY <1>1, <1>2, <1>3 DEF FirmwareNext

LEMMA OverflowStep ==
    ASSUME StreamInv, SP!HwReportsNoOverflow, OverflowHasCause, [FirmwareNext]_fvars
    PROVE  /\ at' # "idle" /\ dropped' => cut'
           /\ "RX_OVERFLOW" \in status' => cut' \/ before'
<1>1. "RX_OVERFLOW" \notin hw
  BY StreamTyped DEF SP!HwReportsNoOverflow
<1>2. \A s : "RX_OVERFLOW" \in S!Refreshed(s) => "RX_OVERFLOW" \in s
  BY <1>1 DEF S!Refreshed
<1>3. /\ at # "idle" /\ dropped => cut
      /\ "RX_OVERFLOW" \in status => cut \/ before
  BY DEF OverflowHasCause
<1>4. CASE Finish
  <2>1. at = "dispatch" /\ at' = "idle" /\ status' = S!Refreshed(S!AfterDispatch) /\ before' = cut
    BY <1>4 DEF Finish, S!Finish, S!ReturnStatus
  <2>2. ASSUME "RX_OVERFLOW" \in S!AfterDispatch PROVE dropped
    <3>1. ~was \/ dropped
      BY <2>2 DEF S!AfterDispatch
    <3>2. "RX_OVERFLOW" \in status
      BY <2>2 DEF S!AfterDispatch
    <3> QED BY <2>1, <3>1, <3>2 DEF OverflowHasCause, SP!BitHasCause
  <2> QED BY <1>2, <1>3, <2>1, <2>2
<1>5. CASE mc_stream_init
  BY <1>5 DEF mc_stream_init, S!mc_stream_init
<1>6. CASE before' = before
  <2>1. CASE UNCHANGED <<at, dropped, cut, status>>
    BY <1>3, <1>6, <2>1
  <2>2. CASE S!mc_stream_write
    BY <1>2, <1>3, <1>6, <2>2 DEF S!mc_stream_write, S!ReturnStatus, S!locals, S!history
  <2>3. CASE S!BeginUpdate
    BY <1>3, <1>6, <2>3 DEF S!BeginUpdate, S!state, S!history
  <2>4. CASE S!ReadDelimiter \/ S!SkipDelimiter \/ S!StoreChar
    <3>1. at = "reading" /\ UNCHANGED <<dropped, cut, status>>
      BY <2>4 DEF S!ReadDelimiter, S!SkipDelimiter, S!StoreChar, S!Reads
    <3> QED BY <1>3, <1>6, <3>1
  <2>5. CASE S!DropChar
    BY <2>5 DEF S!DropChar
  <2>6. CASE S!PollDone
    <3>1. /\ at = "reading" /\ UNCHANGED <<dropped, cut>>
          /\ status' = status \/ status' = S!Refreshed(status)
      BY <2>6 DEF S!PollDone, S!NoMore, S!ReturnStatus
    <3> QED BY <1>2, <1>3, <1>6, <3>1
  <2>7. CASE UNCHANGED stream \/ S!mc_stream_register_rx_callback \/ S!HwChanges
    BY <2>1, <2>7 DEF stream, S!mc_stream_register_rx_callback, S!HwChanges, S!locals,
       S!history, S!state
  <2>8. CASE Receive
    BY <2>1, <2>8 DEF Receive, S!Arrive, S!locals, S!history, S!state
  <2> QED BY <1>4, <1>5, <2>2, <2>3, <2>4, <2>5, <2>6, <2>7, <2>8, StreamMoves DEF StreamMove
<1> QED BY <1>4, <1>5, <1>6, BeforeMoves

\* Once a line is done with nothing makes good the writes that found the
\* hardware not well.
LEMMA WellStays ==
    ASSUME ProgramInv, [FirmwareNext]_fvars, at = "dispatch", taken, taken', outcome # "busy"
    PROVE  outcome' = outcome /\ (well' => well)
<1>1. crashed = "no" /\ log = <<>> /\ printed = <<>>
  BY DEF ProgramInv, CallsNest
<1>2. todo = <<>> /\ pending = Idle
  BY DEF ProgramInv, ConsoleKept, ConsoleTypeOK
<1>3. ~Setup /\ ~BeginUpdate
  BY DEF Setup, Main, mc_stream_init, mc_sys_console_init, InitSystem, mc_debug_init,
     mc_debug_set_level, _mc_log, DumpSystems, BeginUpdate
<1>4. ~ReadOn
  BY DEF ReadOn, S!ReadDelimiter, S!SkipDelimiter, S!StoreChar, S!DropChar, S!PollDone,
     S!NoMore, S!Reads
<1>5. ~Write /\ ~ReadCell /\ ~AnswerToggle
  BY <1>2 DEF Write, Writing, ReadCell, AnswerToggle, ToggleAnswered, Toggle, Idle
<1>6. ~HandleLine /\ ~Finish /\ ~DumpReturns /\ ~PrintNext /\ ~LogReturns /\ ~Halt
  BY <1>1 DEF HandleLine, Finish, DumpReturns, PrintNext, LogReturns, Halt
<1> QED BY <1>3, <1>4, <1>5, <1>6
        DEF FirmwareNext, Run, Receive, HwChanges, fvars, console, answer, program

LEMMA CutHasCause ==
    ASSUME ProgramInv, OverflowHasCause, [FirmwareNext]_fvars,
           at' = "dispatch", taken', outcome' = "cut", well'
    PROVE  cut' \/ before'
<1>1. taken /\ UNCHANGED <<at, cut, was, dropped, before>>
  BY LineStays, LineBegins DEF ProgramInv
<1>2. CASE outcome # "busy"
  BY <1>1, <1>2, WellStays DEF OverflowHasCause
<1>3. CASE outcome = "busy"
  <2>1. Write /\ Writing /\ (Taken \/ Failed)
    <3>1. ASSUME UNCHANGED console PROVE FALSE
      BY <1>3, <3>1 DEF console, answer
    <3>2. ASSUME NEW l \in Lines, process_command(l) PROVE FALSE
      BY <3>2, LineBegins
    <3>3. ~PrintNext /\ ~ReadNext /\ ~ToggleAnswered /\ ~mc_sys_console_dump /\ ~Forget
      BY <1>3 DEF PrintNext, ReadNext, ToggleAnswered, mc_sys_console_dump, Forget
    <3>4. ASSUME NEW s \in Tops, InitSystem(s) PROVE FALSE
      BY <1>3, <3>4 DEF InitSystem, Main
    <3> QED BY <3>1, <3>2, <3>3, <3>4, ConsoleMoves DEF ConsoleMove, ProgramInv
  <2>2. ~Taken
    BY DEF Taken, Proceed
  <2>3. hw = {} /\ ret' # "MC_OK"
    BY <2>1, <2>2 DEF Write
  <2>4. "RX_OVERFLOW" \in status
    BY <2>1, <2>3, WriteStatus DEF Write
  <2> QED BY <1>1, <2>4 DEF OverflowHasCause
<1> QED BY <1>2, <1>3

\* The stream and the console recover by themselves: on hardware that is well,
\* and whose driver reports no overflow of its own, only a line that lost
\* characters and the line right after it go unanswered.
THEOREM FirmwareRecovers ==
    SP!HwReportsNoOverflow /\ FirmwareSpec => []NextLinesAreAnswered
<1>1. FirmwareInit => OverflowHasCause
  BY DEF FirmwareInit, S!Init, OverflowHasCause, SP!BitHasCause
<1>2. SP!HwReportsNoOverflow /\ ProgramInv /\ OverflowHasCause /\ [FirmwareNext]_fvars
        => OverflowHasCause'
  <2> SUFFICES ASSUME SP!HwReportsNoOverflow, ProgramInv, OverflowHasCause, [FirmwareNext]_fvars
               PROVE  OverflowHasCause'
    OBVIOUS
  <2>1. SP!BitHasCause'
    <3>1. SP!TypeOK /\ SP!BitHasCause /\ [SP!Next]_(SP!vars)
      BY StreamStep DEF ProgramInv, StreamInv, SP!IInv, OverflowHasCause
    <3> QED BY <3>1, StreamAssumed, SP!CauseStep
  <2>2. /\ at' # "idle" /\ dropped' => cut'
        /\ "RX_OVERFLOW" \in status' => cut' \/ before'
    BY OverflowStep DEF ProgramInv
  <2>3. at' = "dispatch" /\ taken' /\ outcome' = "cut" /\ well' => cut' \/ before'
    BY CutHasCause
  <2> QED BY <2>1, <2>2, <2>3 DEF OverflowHasCause
<1>3. OverflowHasCause => NextLinesAreAnswered
  BY DEF OverflowHasCause, NextLinesAreAnswered
<1>4. SP!HwReportsNoOverflow => []SP!HwReportsNoOverflow
  OBVIOUS
<1> QED BY <1>1, <1>2, <1>3, <1>4, FirmwareSafe, PTL DEF FirmwareSpec

-----------------------------------------------------------------------------
(* Nothing works before it is initialized                                  *)

\* Who answered, and who is waited for, belong to the system.
Touches(s) ==
    /\ reply'.by = Nobody \/ Inside(reply'.by, s)
    /\ pending' = pending \/ Inside(pending'.leaf, s)

LEMMA CommandTouches ==
    ASSUME dev \in States, NEW s \in Systems, NEW id \in Ids,
           \/ mc_sys_invoke(s, id)
           \/ \E val : mc_sys_write_input(s, id, val)
           \/ mc_sys_read_input(s, id) \/ mc_sys_read_output(s, id)
    PROVE  Touches(s)
<1>1. dev.read_only \in Bits /\ Types \subseteq Members
  BY DEF States, DeviceStates, Bits, Members
<1>2. ASSUME NEW type \in Types, Reaches(type, s, id) PROVE Inside(To(type, s, id), s)
  BY <1>1, <1>2, ReachedIsInside DEF Reaches, To
<1>3. "f" \in Types /\ "x" \in Types /\ "y" \in Types
  BY DEF Types
<1>4. ASSUME NEW op, NEW st, Refused(op, st) PROVE Touches(s)
  BY <1>4 DEF Refused, Answer, Touches
<1>5. ASSUME NEW leaf, Inside(leaf, s), \E val : WriteAt(leaf, val) PROVE Touches(s)
  BY <1>5 DEF WriteAt, digital_sys_write_input, analog_sys_write_input, Answer, Touches
<1>6. ASSUME NEW leaf, Inside(leaf, s), ReadInputAt(leaf) \/ ReadOutputAt(leaf) PROVE Touches(s)
  BY <1>6 DEF ReadInputAt, ReadOutputAt, Answer, Touches
<1>7. ASSUME NEW leaf, Inside(leaf, s), InvokeAt(leaf) PROVE Touches(s)
  <2>1. \/ \E st : Refused("invoke", st)
        \/ reply' = Quiet /\ pending'.leaf = leaf
    BY <1>7 DEF InvokeAt
  <2> QED BY <1>4, <1>7, <2>1 DEF Quiet, Answer, Nobody, Touches
<1>8. CASE mc_sys_invoke(s, id)
  BY <1>2, <1>3, <1>4, <1>7, <1>8 DEF mc_sys_invoke
<1>9. CASE \E val : mc_sys_write_input(s, id, val)
  BY <1>2, <1>3, <1>4, <1>5, <1>9 DEF mc_sys_write_input
<1>10. CASE mc_sys_read_input(s, id) \/ mc_sys_read_output(s, id)
  BY <1>2, <1>3, <1>4, <1>6, <1>10 DEF mc_sys_read_input, mc_sys_read_output
<1> QED BY <1>8, <1>9, <1>10

\* A line makes calls on the system that it names, or none.
LEMMA LineTouches ==
    ASSUME dev \in States, NEW l \in Lines, process_command(l)
    PROVE  UNCHANGED vars \/ \E s \in Commanded(l) \cap Tops : Touches(s)
<1> DEFINE tokens == l.tokens
           n == FindSystem(tokens[1])
           s == Entries[n].system
           rest == SubSeq(tokens, 3, Len(tokens))
<1>1. \/ Reject(l) \/ \E jobs : Say(l, jobs)
      \/ /\ tokens # <<>> /\ ~IsClear(l) /\ n # 0 /\ ~l.help /\ Len(tokens) > 1
         /\ Execute(l, s, tokens[2], rest)
  BY DEF process_command
<1>2. CASE Reject(l) \/ \E jobs : Say(l, jobs)
  BY <1>2 DEF Reject, Say
<1>3. CASE /\ tokens # <<>> /\ ~IsClear(l) /\ n # 0 /\ ~l.help /\ Len(tokens) > 1
           /\ Execute(l, s, tokens[2], rest)
  <2>1. tokens \in Seq(Token) /\ Len(tokens) \in Nat
    BY ConsoleAssumption
  <2>2. n \in DOMAIN Entries
    BY <1>3, FoundIsEntry
  <2>3. s \in Tops /\ s \in Systems
    <3> HIDE DEF n
    <3> QED BY <2>2, EntriesAre
  <2>4. s \in Commanded(l)
    BY <1>3, <2>1 DEF Commanded
  <2>5. tokens[2] \in Token
    <3>1. 2 \in 1..Len(tokens)
      BY <1>3, <2>1
    <3> HIDE DEF tokens
    <3> QED BY <2>1, <3>1, ElementOfSeq
  <2> HIDE DEF s, tokens, n, rest
  <2>6. \/ Reject(l)
        \/ \E cmd \in FindCommand(s, tokens[2]) :
             \/ mc_sys_invoke(s, cmd.id)
             \/ \E val : mc_sys_write_input(s, cmd.id, val)
             \/ mc_sys_read_input(s, cmd.id) \/ mc_sys_read_output(s, cmd.id)
    BY <1>3 DEF Execute, Input, UserWrite, Function
  <2>7. ASSUME NEW cmd \in FindCommand(s, tokens[2]),
               \/ mc_sys_invoke(s, cmd.id)
               \/ \E val : mc_sys_write_input(s, cmd.id, val)
               \/ mc_sys_read_input(s, cmd.id) \/ mc_sys_read_output(s, cmd.id)
        PROVE  Touches(s)
    <3>1. cmd.id \in Ids
      BY <2>3, <2>5, FoundIsCommand
    <3> QED BY <2>3, <2>7, <3>1, CommandTouches
  <2> QED BY <1>2, <2>3, <2>4, <2>6, <2>7
<1> QED BY <1>1, <1>2, <1>3

\* The leaves of the systems that were initialized.
Ready(leaf) == \E s \in Tops \cap up : Inside(leaf, s)

PartsReady ==
    /\ "console" \in up /\ crashed = "no" => "stream" \in up
    /\ at # "idle" \/ log # <<>> \/ todo # <<>> \/ pending # Idle => "stream" \in up
    /\ reply.by = Nobody \/ Ready(reply.by)
    /\ pending.leaf = Nobody \/ Ready(pending.leaf)

LEMMA UpGrows ==
    ASSUME [FirmwareNext]_fvars
    PROVE  /\ up \subseteq up'
           /\ "console" \in up' \ up => crashed' # "no" \/ "stream" \in up
           /\ crashed' = "no" => crashed = "no"
<1>0. ASSUME NEW s \in Tops PROVE s # "console"
  BY FirmwareAssumption, CompositeAssumption
<1>1. CASE Setup \/ BeginUpdate
  <2>1. CASE mc_sys_console_init
    BY <2>1 DEF mc_sys_console_init, mc_assert_handler, Main
  <2>2. CASE \E s \in Tops : InitSystem(s)
    BY <1>0, <2>2 DEF InitSystem
  <2>3. CASE mc_stream_init
    BY <2>3 DEF mc_stream_init
  <2> QED BY <1>1, <2>1, <2>2, <2>3 DEF Setup, BeginUpdate, Asserts, Main, mc_assert_handler,
             mc_debug_init, mc_debug_set_level, _mc_log, DumpSystems, program
<1>2. CASE Run
  BY <1>2 DEF Run, ReadOn, HandleLine, Write, ReadCell, AnswerToggle, Finish, DumpReturns,
     PrintNext, LogReturns, Halt, Asserts, mc_assert_handler, program
<1>3. CASE Receive \/ HwChanges \/ UNCHANGED fvars
  BY <1>3 DEF Receive, HwChanges, fvars, program
<1> QED BY <1>1, <1>2, <1>3 DEF FirmwareNext

\* The stream is read, the log printed and an answer written only once the
\* stream was initialized.
LEMMA StreamReady ==
    ASSUME ProgramInv, PartsReady, [FirmwareNext]_fvars,
           at' # "idle" \/ log' # <<>> \/ todo' # <<>> \/ pending' # Idle
    PROVE  "stream" \in up
<1> SUFFICES ASSUME "stream" \notin up PROVE FALSE
  OBVIOUS
<1>1. at = "idle" /\ log = <<>> /\ todo = <<>> /\ pending = Idle
  BY DEF PartsReady
<1>2. crashed = "no" => "console" \notin up
  BY DEF PartsReady
<1>3. mc_assert_handler => log' = <<>> /\ UNCHANGED <<stream, console>>
  BY DEF mc_assert_handler, Logs
<1>4. UNCHANGED <<stream, console>> => at' = at /\ todo' = todo /\ pending' = pending
  BY DEF stream, console, systems, answer
<1>5. CASE Setup
  <2>1. CASE mc_stream_init
    BY <1>1, <2>1 DEF mc_stream_init, S!mc_stream_init, console, systems, answer
  <2>2. CASE \E s \in Tops : InitSystem(s)
    BY <1>1, <2>2 DEF InitSystem, mc_sys_init, leaf_init, stream, answer
  <2>3. CASE mc_sys_console_init \/ DumpSystems
    BY <1>1, <1>2, <1>3, <1>4, <2>3 DEF mc_sys_console_init, DumpSystems, Asserts, Main
  <2> QED BY <1>1, <1>4, <1>5, <2>1, <2>2, <2>3
          DEF Setup, mc_debug_init, mc_debug_set_level, _mc_log, Logs
<1>6. CASE BeginUpdate
  BY <1>1, <1>3, <1>4, <1>6 DEF BeginUpdate, Asserts
<1>7. ~ReadOn /\ ~HandleLine /\ ~Write /\ ~ReadCell /\ ~AnswerToggle /\ ~Finish /\ ~PrintNext
  BY <1>1 DEF ReadOn, S!ReadDelimiter, S!SkipDelimiter, S!StoreChar, S!DropChar, S!PollDone,
     S!NoMore, S!Reads, HandleLine, Write, Writing, ReadCell, AnswerToggle, ToggleAnswered,
     Toggle, Idle, Finish, S!Finish, PrintNext
<1>8. CASE DumpReturns \/ LogReturns \/ Halt
  BY <1>1, <1>4, <1>8 DEF DumpReturns, LogReturns, Halt, stream, systems
<1>9. CASE Receive \/ HwChanges
  BY <1>1, <1>9 DEF Receive, HwChanges, S!Arrive, S!HwChanges, S!locals, console, systems,
     answer, program
<1>10. CASE UNCHANGED fvars
  BY <1>1, <1>4, <1>10 DEF fvars, program
<1> QED BY <1>5, <1>6, <1>7, <1>8, <1>9, <1>10 DEF FirmwareNext, Run

\* Only systems that were initialized answer.
LEMMA OwnersReady ==
    ASSUME ProgramInv, PartsReady, [FirmwareNext]_fvars
    PROVE  /\ reply'.by = Nobody \/ Ready(reply'.by)
           /\ pending'.leaf = Nobody \/ Ready(pending'.leaf)
<1>1. ASSUME reply' = reply \/ reply' = Quiet, pending' = pending \/ pending' = Idle
      PROVE  /\ reply'.by = Nobody \/ Ready(reply'.by)
             /\ pending'.leaf = Nobody \/ Ready(pending'.leaf)
  BY <1>1 DEF PartsReady, Quiet, Answer, Nobody, Idle
<1>2. ASSUME NEW s \in Tops, s \in up, Touches(s)
      PROVE  /\ reply'.by = Nobody \/ Ready(reply'.by)
             /\ pending'.leaf = Nobody \/ Ready(pending'.leaf)
  BY <1>2 DEF PartsReady, Touches, Ready
<1>3. crashed = "no" => ConsoleInv /\ dev \in States
  BY DEF ProgramInv, ConsoleKept, ConsoleInv, SystemInv
<1>4. CASE UNCHANGED console
  BY <1>1, <1>4 DEF console, systems
<1>5. CASE PrintNext
  BY <1>1, <1>5 DEF PrintNext, systems
<1>6. ASSUME NEW l \in Lines, crashed = "no", Commanded(l) \subseteq up, process_command(l)
      PROVE  /\ reply'.by = Nobody \/ Ready(reply'.by)
             /\ pending'.leaf = Nobody \/ Ready(pending'.leaf)
  <2>1. UNCHANGED vars \/ \E s \in Commanded(l) \cap Tops : Touches(s)
    BY <1>3, <1>6, LineTouches
  <2> QED BY <1>1, <1>2, <1>6, <2>1 DEF vars
<1>7. CASE mc_sys_console_dump \/ Writing
  BY <1>1, <1>7 DEF mc_sys_console_dump, Say, Writing, vars
<1>8. CASE crashed = "no" /\ Head(todo).system \in up /\ ReadNext
  <2> DEFINE cell == Head(todo)
  <2>1. cell.system \in Systems /\ cell.id \in Ids
    BY <1>3, <1>8, CellIsRead DEF Cells
  <2>2. cell.system \in Tops /\ cell.system \in up
    BY <1>8, <2>1, FirmwareAssumption DEF ProgramInv, ProgramTyped
  <2>3. mc_sys_read_input(cell.system, cell.id) \/ mc_sys_read_output(cell.system, cell.id)
    BY <1>8 DEF ReadNext
  <2> HIDE DEF cell
  <2>4. Touches(cell.system)
    BY <1>3, <1>8, <2>1, <2>3, CommandTouches
  <2> QED BY <1>2, <2>2, <2>4
<1>9. CASE crashed = "no" /\ ToggleAnswered
  <2>1. reply'.by = pending.leaf /\ pending' = Idle
    BY <1>9 DEF ToggleAnswered, Toggle, Answer
  <2> QED BY <2>1 DEF PartsReady, Idle
<1>10. ASSUME NEW s \in Tops, InitSystem(s)
       PROVE  reply' = Quiet /\ pending' = pending
  BY <1>10 DEF InitSystem, mc_sys_init, leaf_init
<1>11. CASE Forget /\ UNCHANGED <<systems, line, todo, frame>>
  BY <1>1, <1>11 DEF Forget, systems
<1> QED BY <1>1, <1>4, <1>5, <1>6, <1>7, <1>8, <1>9, <1>10, <1>11, ConsoleMoves
        DEF ConsoleMove, ProgramInv

\* In whatever order a program sets things up, the stream is read, written and
\* logged to once it is initialized, and a system answers once it is.
THEOREM FirmwareReady == FirmwareSpec => []OnlyReadyPartsWork
<1>1. FirmwareInit => PartsReady
  BY DEF FirmwareInit, S!Init, ConsoleInit, Init, DevicesInit, Quiet, Answer, Idle, Nobody, PartsReady
<1>2. ProgramInv /\ PartsReady /\ [FirmwareNext]_fvars => PartsReady'
  <2> SUFFICES ASSUME ProgramInv, PartsReady, [FirmwareNext]_fvars PROVE PartsReady'
    OBVIOUS
  <2>1. "console" \in up' /\ crashed' = "no" => "stream" \in up'
    BY UpGrows DEF PartsReady
  <2>2. at' # "idle" \/ log' # <<>> \/ todo' # <<>> \/ pending' # Idle => "stream" \in up'
    BY UpGrows, StreamReady
  <2>3. \A leaf : Ready(leaf) => \E s \in Tops \cap up' : Inside(leaf, s)
    BY UpGrows DEF Ready
  <2> QED BY <2>1, <2>2, <2>3, OwnersReady DEF PartsReady, Ready
<1>3. PartsReady => OnlyReadyPartsWork
  <2>1. Nobody \notin DigitalSystems \cup AnalogSystems
    BY LeavesAssumption DEF Leaves
  <2> QED BY <2>1 DEF PartsReady, Ready, Inside, OnlyReadyPartsWork
<1> QED BY <1>1, <1>2, <1>3, FirmwareSafe, PTL DEF FirmwareSpec

-----------------------------------------------------------------------------
(* What the stream and the console promise holds of them in the program    *)

\* The messages of the program's stream, whose listener is the console, are the
\* lines that were read since it was last initialized, whatever the log, the
\* console and the setup calls do to the stream meanwhile.
THEOREM FirmwareDelivers ==
    SP!RoomForText => (FirmwareSpec => []SP!MessagesAreLines)
<1> SUFFICES ASSUME SP!RoomForText PROVE FirmwareSpec => []SP!MessagesAreLines
  OBVIOUS
<1>1. FirmwareInit => StreamInv /\ SP!LineInv
  BY StreamStart, StreamAssumed, SP!InitSafe, SP!InitLines DEF StreamInv
<1>2. StreamInv /\ SP!LineInv /\ [FirmwareNext]_fvars => StreamInv' /\ SP!LineInv'
  BY StreamStep, StreamAssumed, SP!StepSafe, SP!StepLines DEF StreamInv
<1>3. SP!LineInv => SP!MessagesAreLines
  BY DEF SP!LineInv
<1> QED BY <1>1, <1>2, <1>3, PTL DEF FirmwareSpec

\* Until a failed assertion ends the program, what its help says is true.
THEOREM FirmwareHelps ==
    NamesDiffer => (FirmwareSpec => [](crashed = "no" => HelpIsTrue))
<1> SUFFICES ASSUME NamesDiffer PROVE FirmwareSpec => [](crashed = "no" => HelpIsTrue)
  OBVIOUS
<1>1. ProgramInv => (crashed = "no" => HelpIsTrue)
  <2> SUFFICES ASSUME ProgramInv, crashed = "no" PROVE HelpIsTrue
    OBVIOUS
  <2>1. dev.read_only \in Bits
    BY DEF ProgramInv, ConsoleKept, ConsoleInv, SystemInv, States, DeviceStates, Bits
  <2> QED BY <2>1, HelpHolds
<1> QED BY <1>1, FirmwareSafe, PTL
=============================================================================
