------------------------------ MODULE Firmware ------------------------------
(***************************************************************************)
(* A whole program: the setup calls and the main loop of an application    *)
(* with one stream, a console on it, the debug log on the same stream      *)
(* (src/core/debug.c) and the assertion handler (src/core/utils.c).  The   *)
(* lines that Stream gathers are the lines that Console carries out, and   *)
(* the writes of Console, of the log and of the handler are mc_stream_write*)
(* of Stream, whose status they share.                                     *)
(*                                                                         *)
(* One write finds the hardware well or not: it does not change during a   *)
(* write, and well hardware takes everything (stream.h:80, a blocking      *)
(* write).                                                                 *)
(***************************************************************************)
EXTENDS Console

CONSTANTS
    RxLen, HwStates, NL, NUL, POLL,     \* of Stream
    Sent,       \* what the user sends: the k-th character is k or NL
    MaxAhead,   \* bound on the characters received and not yet read
    Parse(_),   \* the line that a message is
    LogLevels   \* the levels of messages and of the filter

Modes == {"TEXT_LINE"}
MaxArrivals == Len(Sent)
MC_LOG_LEVEL_TRACE == 1
MC_LOG_LEVEL_CRITICAL == 6

VARIABLES
    wire, hw, arrived, buffer, index, mode, status, listening,
    at, was, dropped, ready, ret, asked, input, inbox, cut,     \* Stream
    up,         \* what is_initialized is set of
    debug,      \* debug_stream is the stream, not NULL
    level,      \* current_level
    log,        \* the prints that the message in hand still makes
    crashed,    \* "no", then "reporting" a failed assertion, then "halted"
    taken,      \* console_rx_handler was called for the message in inbox
    printed,    \* history: what came out of the message in hand
    well,       \* history: each write of the call in hand found hw well
    before      \* history: the message before had lost characters

S == INSTANCE Stream

Characters == {Sent[k] : k \in DOMAIN Sent}

\* The messages that the buffer has room for.
Texts == UNION {[1..n -> Characters] : n \in 1..(RxLen - 1)}

ASSUME FirmwareAssumption ==
    /\ S!StreamAssumption
    /\ Sent \in Seq(S!Chars)
    /\ \A k \in DOMAIN Sent : Sent[k] \in {k, NL}
    /\ \A text \in Texts : Parse(text) \in Lines
    /\ MC_LOG_LEVEL_TRACE \in LogLevels
    /\ LogLevels \subseteq MC_LOG_LEVEL_TRACE..MC_LOG_LEVEL_CRITICAL
    /\ Systems \cap {"stream", "console"} = {}

stream == <<wire, hw, arrived, buffer, index, mode, status, listening,
            at, was, dropped, ready, ret, asked, input, inbox, cut>>
systems == <<dev, target, pending>>
console == <<systems, reply, answer>>
program == <<up, debug, level, log, crashed, taken, printed, well, before>>
fvars == <<stream, console, program>>

\* The code outside the library runs: setup, then the main loop.
Main ==
    /\ crashed = "no"
    /\ at = "idle"
    /\ log = <<>> /\ printed = <<>>
    /\ said = <<>> /\ outcome # "busy"

\* The history of a call is forgotten when it has returned.
Forget ==
    /\ said' = <<>> /\ got' = <<>> /\ outcome' = "done"
    /\ reply' = Quiet
    /\ well' = TRUE

-----------------------------------------------------------------------------
(* The debug log and failed assertions                                     *)

\* The three prints of a message.
Message == <<"head", "text", "end">>

\* Mutant: debug_stream is used whether initialized or not.
LogsAnywhere(l) == debug /\ l >= level

\* Past the early returns of _mc_log.
Logs(l) == debug /\ "stream" \in up /\ l >= level

_mc_log(l) ==
    /\ Main
    /\ Logs(l)
    /\ log' = Message
    /\ UNCHANGED <<stream, console, up, debug, level, crashed, taken, printed, well, before>>

\* Mutant: the first print that fails ends the message.
PrintsLeftIfOk == IF ret' = "MC_OK" THEN Tail(log) ELSE <<>>

\* What the prints return makes no difference.
PrintsLeft == Tail(log)

\* The next print of the message in hand, which holds no STX nor ETX.
PrintNext ==
    /\ log # <<>>
    /\ S!mc_stream_write
    /\ log' = PrintsLeft
    /\ printed' = Append(printed, IF hw = {} THEN Head(log) ELSE "torn")
    /\ frame' = Received(Head(log))
    /\ well' = (well /\ hw = {})
    /\ UNCHANGED <<systems, reply, line, todo, said, outcome, got,
                   up, debug, level, crashed, taken, before>>

LogReturns ==
    /\ log = <<>> /\ printed # <<>>
    /\ printed' = <<>>
    /\ well' = TRUE
    /\ UNCHANGED <<stream, console, up, debug, level, log, crashed, taken, before>>

\* mc_assert_handler, without an override: a critical message, and no return.
mc_assert_handler ==
    /\ crashed' = "reporting"
    /\ log' = IF Logs(MC_LOG_LEVEL_CRITICAL) THEN Message ELSE <<>>
    /\ well' = TRUE
    /\ UNCHANGED <<stream, console, debug, level, taken, printed, before>>

Halt ==
    /\ crashed = "reporting" /\ log = <<>> /\ printed = <<>>
    /\ crashed' = "halted"
    /\ UNCHANGED <<stream, console, up, debug, level, log, taken, printed, well, before>>

-----------------------------------------------------------------------------
(* Setup calls, which the main loop may make again                         *)

\* The program starts the stream again when it finds an error in the status.
mc_stream_init ==
    /\ Main
    /\ "stream" \notin up \/ status # {}
    /\ S!mc_stream_init
    /\ wire' = wire     \* mc_arduino_stream_driver has no init
    /\ up' = up \union {"stream"}
    /\ before' = FALSE
    /\ UNCHANGED <<console, debug, level, log, crashed, taken, printed, well>>

\* The flag is set before the stream is looked at.  A callback that is in the
\* list is not registered again (list.c does not check).
mc_sys_console_init ==
    /\ Main
    /\ ~listening
    /\ up' = up \union {"console"}
    /\ \/ /\ "stream" \notin up
          /\ mc_assert_handler
       \/ /\ "stream" \in up
          /\ S!mc_stream_register_rx_callback
          /\ UNCHANGED <<console, debug, level, log, crashed, taken, printed, well, before>>

InitSystem(s) ==
    /\ Main
    /\ mc_sys_init(s)
    /\ up' = up \union {s}
    /\ UNCHANGED <<stream, answer, debug, level, log, crashed, taken, printed, well, before>>

mc_debug_init(given) ==
    /\ Main
    /\ debug' = given
    /\ UNCHANGED <<stream, console, up, level, log, crashed, taken, printed, well, before>>

mc_debug_set_level(l) ==
    /\ Main
    /\ level' = l
    /\ UNCHANGED <<stream, console, up, debug, log, crashed, taken, printed, well, before>>

\* An assertion of the main loop fails before anything is done.
Asserts == mc_assert_handler /\ UNCHANGED up

DumpSystems ==
    /\ Main
    /\ \/ "console" \notin up /\ Asserts
       \/ "console" \in up /\ mc_sys_console_dump /\ UNCHANGED <<stream, program>>

DumpReturns ==
    /\ crashed = "no"
    /\ at = "idle" /\ said # <<>> /\ outcome # "busy"
    /\ Forget
    /\ UNCHANGED <<stream, systems, line, todo, frame,
                   up, debug, level, log, crashed, taken, printed, before>>

-----------------------------------------------------------------------------
(* mc_stream_update, with the console among its listeners                  *)

BeginUpdate ==
    /\ Main
    /\ \/ "stream" \notin up /\ Asserts
       \/ "stream" \in up /\ S!BeginUpdate /\ UNCHANGED <<console, program>>

\* arduino_stream_read gives nothing while the hardware is not connected.
ReadOn ==
    /\ \/ hw = {} /\ (S!ReadDelimiter \/ S!SkipDelimiter \/ S!StoreChar \/ S!DropChar)
       \/ S!PollDone
    /\ UNCHANGED <<console, program>>

\* The system whose calls a line makes when it arrives: none or one.  A dump
\* makes its calls cell by cell, and help asks the driver of the system.
Commanded(l) ==
    IF l.help \/ Len(l.tokens) < 2 \/ IsClear(l) \/ FindSystem(l.tokens[1]) = 0 THEN {}
    ELSE {Entries[FindSystem(l.tokens[1])].system}

\* The systems that are looked at have to be initialized (CHECK_SYSTEM).
HandleLine ==
    /\ crashed = "no"
    /\ at = "dispatch" /\ listening /\ ~taken
    /\ LET l == Parse(inbox[Len(inbox)])
       IN  \/ ~(Commanded(l) \subseteq up) /\ Asserts
           \/ /\ Commanded(l) \subseteq up
              /\ process_command(l)
              /\ taken' = TRUE
              /\ UNCHANGED <<stream, up, debug, level, log, crashed, printed, well, before>>

\* The next write of the answer in hand, by the handler or by a dump.  When the
\* hardware is well and the status is not, the whole piece went out.
Write ==
    /\ crashed = "no"
    /\ Writing
    /\ S!mc_stream_write
    /\ \/ ret' = "MC_OK" /\ Taken
       \/ ret' # "MC_OK" /\ hw = {} /\ FailedWith(Head(todo).what)
       \/ hw # {} /\ Failed
    /\ well' = (well /\ hw = {})
    /\ UNCHANGED <<up, debug, level, log, crashed, taken, printed, before>>

\* The next cell of a dump, of a system that may not be initialized.
ReadCell ==
    /\ crashed = "no"
    /\ todo # <<>> /\ Head(todo).do # "put"
    /\ \/ Head(todo).system \notin up /\ Asserts
       \/ Head(todo).system \in up /\ ReadNext /\ UNCHANGED <<stream, program>>

AnswerToggle ==
    /\ crashed = "no"
    /\ ToggleAnswered
    /\ UNCHANGED <<stream, program>>

\* Mutant: mc_stream_update waits for an answer that got out.
ReturnedWell == ~listening \/ (taken /\ outcome = "done")

\* The listeners have returned.
Returned == ~listening \/ (taken /\ outcome # "busy")

Finish ==
    /\ crashed = "no"
    /\ Returned
    /\ S!Finish
    /\ taken' = FALSE
    /\ before' = cut
    /\ Forget
    /\ UNCHANGED <<systems, line, todo, frame, up, debug, level, log, crashed, printed>>

-----------------------------------------------------------------------------
(* The world                                                               *)

Receive ==
    /\ crashed = "no"
    /\ arrived < Len(Sent) /\ Len(wire) < MaxAhead
    /\ S!Arrive(Sent[arrived + 1])
    /\ UNCHANGED <<console, program>>

HwChanges == S!HwChanges /\ UNCHANGED <<console, program>>

-----------------------------------------------------------------------------

FirmwareInit ==
    /\ S!Init
    /\ ConsoleInit
    /\ up = {} /\ debug = FALSE /\ level = MC_LOG_LEVEL_TRACE
    /\ log = <<>> /\ crashed = "no" /\ taken = FALSE
    /\ printed = <<>> /\ well = TRUE /\ before = FALSE

Setup ==
    \/ mc_stream_init
    \/ mc_sys_console_init
    \/ \E s \in Tops : InitSystem(s)
    \/ \E given \in BOOLEAN : mc_debug_init(given)
    \/ \E l \in LogLevels : mc_debug_set_level(l) \/ _mc_log(l)
    \/ DumpSystems

\* What runs on once it has begun.
Run ==
    \/ ReadOn \/ HandleLine \/ Write \/ ReadCell \/ AnswerToggle \/ Finish
    \/ DumpReturns \/ PrintNext \/ LogReturns \/ Halt

FirmwareNext == Setup \/ BeginUpdate \/ Run \/ Receive \/ HwChanges

\* The main loop calls mc_stream_update again and again, whatever else it calls
\* between, and every call returns.
FirmwareSpec ==
    FirmwareInit /\ [][FirmwareNext]_fvars /\ WF_fvars(Run) /\ SF_fvars(BeginUpdate)

-----------------------------------------------------------------------------
(* Properties                                                              *)

FirmwareTypeOK ==
    /\ S!TypeOK /\ ConsoleTypeOK
    /\ up \subseteq Tops \union {"stream", "console"}
    /\ debug \in BOOLEAN /\ level \in LogLevels
    /\ \E k \in 0..Len(Message) : log = SubSeq(Message, k + 1, Len(Message))
    /\ crashed \in {"no", "reporting", "halted"}
    /\ taken \in BOOLEAN /\ well \in BOOLEAN /\ before \in BOOLEAN
    /\ printed \in Seq({"head", "text", "end", "torn"})

\* With the log, the crash report and the console on one stream, whose writes
\* fail for the hardware and for what was received, a frame that ends is still
\* the whole answer to one line.
FramesStayWhole == FramesAreWhole

\* A line that lost characters is carried out all the same, and is never
\* answered: the overflow bit makes the first write of its answer fail
\* (stream.c:37, 104), so that no peer takes the answer for that to the line
\* it sent.
CutLinesGetNoAnswer ==
    at = "dispatch" /\ taken /\ got # <<>> => ~cut

\* On hardware that is well, only a line that lost characters and the line
\* right after it are carried out without an answer (stream.c:165): the stream
\* and the console recover by themselves.
NextLinesAreAnswered ==
    at = "dispatch" /\ taken /\ outcome = "cut" /\ well => cut \/ before

\* A message is logged, and a failed assertion reported, as a whole when the
\* hardware is well: the errors that a full receive buffer gives to every write
\* do not cut it (debug.c:57-60).
LogIsWhole ==
    log = <<>> /\ printed # <<>> /\ well => printed = Message

\* Nothing works before it is initialized, in whatever order the program sets
\* things up: what would is an assertion that stops the program, and the report
\* of that assertion does not fail another (debug.c:45).
OnlyReadyPartsWork ==
    /\ at # "idle" \/ log # <<>> \/ todo # <<>> => "stream" \in up
    /\ reply.by \in DigitalSystems \union AnalogSystems =>
         \E s \in Tops \intersect up : \E i \in DOMAIN LeafOrder[s] :
            LeafOrder[s][i] = reply.by

\* What is received gets read and carried out as long as the program runs on
\* hardware that is well: no answer, dump or message holds the main loop up,
\* and no error left in the status stops the reading.
InputIsServed ==
    <>[](hw = {} /\ crashed = "no") => (wire # <<>> ~> wire = <<>>)
=============================================================================
