------------------------------- MODULE Stream -------------------------------
(***************************************************************************)
(* src/core/communication/stream.c: characters that a driver receives at   *)
(* its own pace are gathered in a buffer of rx_buffer_len bytes, and the   *)
(* messages they make are handed to callbacks.  mc_stream_update runs      *)
(* character by character here, because more characters arrive, the        *)
(* hardware fails and recovers, and callbacks call the stream, while it    *)
(* runs.                                                                   *)
(*                                                                         *)
(* A character is the newline (either delimiter) or any other, and every   *)
(* other one is told apart by the number of its arrival: a message that    *)
(* loses, repeats or swaps characters shows.                               *)
(***************************************************************************)
EXTENDS SequencesExt

CONSTANTS
    RxLen,      \* rx_buffer_len
    Modes,      \* the modes the program selects
    HwStates,   \* what driver->get_status may report: sets of status bits
    NL, NUL,    \* '\n' or '\r'; '\0'
    POLL,       \* marks the end of a binary update in the history
    MaxArrivals \* bound on the characters received in all

Flags == {"ERROR", "NO_RESPONSE", "HW_BUSY", "RX_BUSY", "RX_OVERFLOW"}

ASSUME StreamAssumption ==
    /\ RxLen \in Nat \ {0}
    /\ Modes \subseteq {"TEXT_LINE", "BINARY_STREAM"}
    /\ "TEXT_LINE" \in Modes
    /\ HwStates \subseteq SUBSET Flags /\ {} \in HwStates
    /\ NL \notin Nat /\ POLL \notin Nat \union {NL}
    /\ MaxArrivals \in Nat

VARIABLES
    wire,       \* received by the hardware and not yet read
    hw,         \* the status the driver reports now
    arrived,    \* how many characters the hardware received
    buffer, index, mode, status,    \* the stream's state
    listening,  \* some callback is registered
    at, was, dropped, ready,        \* mc_stream_update: where it is, its locals
    ret,        \* what the last mc_stream_update or mc_stream_write returned
    asked,      \* the status was read since the last update began
    input, inbox, cut               \* history, below

driver == <<wire, hw, arrived>>
state == <<buffer, index, mode, status, listening>>
locals == <<at, was, dropped, ready>>
history == <<input, inbox, cut>>
vars == <<driver, state, locals, ret, asked, history>>

(***************************************************************************)
(* History.  input: what was read, with the mode it was read in, and a     *)
(* POLL where an update ran out of characters in binary mode.  inbox: the  *)
(* messages given to mc_event_trigger.  cut: the message in the buffer has *)
(* lost characters.                                                        *)
(***************************************************************************)
Chars == Nat \union {NL}
Items == [char : Chars \union {POLL}, mode : Modes]

Message == [i \in 1..index |-> buffer[i - 1]]

-----------------------------------------------------------------------------
(* Helpers of stream.c                                                     *)

convert_status(s) ==
    IF "ERROR" \in s THEN "MC_ERROR"
    ELSE IF "NO_RESPONSE" \in s THEN "MC_ERROR_NO_RESPONSE"
    ELSE IF "HW_BUSY" \in s \/ "RX_BUSY" \in s THEN "MC_ERROR_BUSY"
    ELSE IF "RX_OVERFLOW" \in s THEN "MC_ERROR_NO_RESOURCE"
    ELSE "MC_OK"

\* Mutant: the driver's report replaces the status, overflow included.
StatusReplaced(s) == hw

\* update_status: what the driver reports, and the overflow bit of s.
Refreshed(s) == hw \union (s \intersect {"RX_OVERFLOW"})

\* The common end of mc_stream_update and mc_stream_write.
ReturnStatus(s) ==
    /\ status' = Refreshed(s)
    /\ ret' = convert_status(Refreshed(s))

-----------------------------------------------------------------------------
(* The driver: external, any hardware behind the driver interface          *)

Arrive(c) ==
    /\ arrived < MaxArrivals
    /\ arrived' = arrived + 1
    /\ wire' = Append(wire, c)
    /\ UNCHANGED <<hw, state, locals, ret, asked, history>>

HwChanges ==
    /\ hw' \in HwStates \ {hw}
    /\ UNCHANGED <<wire, arrived, state, locals, ret, asked, history>>

-----------------------------------------------------------------------------
(* mc_stream_update                                                        *)

\* Mutant: an update does not read while the last known status is bad.
BeginUnlessBad ==
    /\ at = "idle"
    /\ status = {}
    /\ at' = "reading"
    /\ dropped' = FALSE
    /\ asked' = FALSE
    /\ UNCHANGED <<driver, state, was, ready, ret, history>>

BeginUpdate ==
    /\ at = "idle"
    /\ at' = "reading"
    /\ was' = ("RX_OVERFLOW" \in status)
    /\ dropped' = FALSE
    /\ asked' = FALSE
    /\ UNCHANGED <<driver, state, ready, ret, history>>

\* driver->read_char returns true.
Reads ==
    /\ at = "reading"
    /\ wire # <<>>
    /\ wire' = Tail(wire)
    /\ input' = Append(input, [char |-> Head(wire), mode |-> mode])
    /\ UNCHANGED <<hw, arrived, mode, listening, was, asked>>

\* Mutant: a newline ends a message in binary mode too.
EndsLineAlways == Head(wire) = NL

EndsLine == mode = "TEXT_LINE" /\ Head(wire) = NL

ReadyAfter == ready \/ mode = "BINARY_STREAM"

\* Mutant: the line is handed over without its NUL.
ReadDelimiterUnterminated ==
    /\ Reads
    /\ EndsLine
    /\ index > 0
    /\ ready' = TRUE
    /\ at' = "dispatch"
    /\ inbox' = Append(inbox, Message)
    /\ UNCHANGED <<buffer, index, status, dropped, ret, cut>>

\* The delimiter of a line in the buffer: the loop is left and callbacks run.
ReadDelimiter ==
    /\ Reads
    /\ EndsLine
    /\ index > 0
    /\ buffer' = [buffer EXCEPT ![index] = NUL]
    /\ ready' = TRUE
    /\ at' = "dispatch"
    /\ inbox' = Append(inbox, Message)
    /\ UNCHANGED <<index, status, dropped, ret, cut>>

\* A delimiter with nothing before it.
SkipDelimiter ==
    /\ Reads
    /\ EndsLine
    /\ index = 0
    /\ ready' = ReadyAfter
    /\ UNCHANGED <<buffer, index, status, at, dropped, ret, inbox, cut>>

\* Mutant: no room is kept for the NUL.
StoreTooFar ==
    /\ Reads
    /\ ~EndsLine
    /\ index < RxLen
    /\ buffer' = [buffer EXCEPT ![index] = Head(wire)]
    /\ index' = index + 1
    /\ ready' = ReadyAfter
    /\ UNCHANGED <<status, at, dropped, ret, inbox, cut>>

StoreChar ==
    /\ Reads
    /\ ~EndsLine
    /\ index < RxLen - 1
    /\ buffer' = [buffer EXCEPT ![index] = Head(wire)]
    /\ index' = index + 1
    /\ ready' = ReadyAfter
    /\ UNCHANGED <<status, at, dropped, ret, inbox, cut>>

\* Mutant: the drop is not recorded in the status.
DropSilently ==
    /\ Reads
    /\ ~EndsLine
    /\ index >= RxLen - 1
    /\ dropped' = TRUE
    /\ ready' = ReadyAfter
    /\ cut' = TRUE
    /\ UNCHANGED <<buffer, index, status, at, ret, inbox>>

DropChar ==
    /\ Reads
    /\ ~EndsLine
    /\ index >= RxLen - 1
    /\ status' = status \union {"RX_OVERFLOW"}
    /\ dropped' = TRUE
    /\ ready' = ReadyAfter
    /\ cut' = TRUE
    /\ UNCHANGED <<buffer, index, at, ret, inbox>>

\* driver->read_char returns false: there is nothing, or the hardware is not
\* well (a driver may then refuse to read, as arduino_stream_read does).
NoMore ==
    /\ at = "reading"
    /\ wire = <<>> \/ hw # {}

\* The locals are gone; dropped stays, to tell what the last update did.
Leave == was' = FALSE /\ ready' = FALSE

PollDone ==
    /\ NoMore
    /\ IF ready
       THEN /\ at' = "dispatch"
            /\ inbox' = Append(inbox, Message)
            /\ input' = Append(input, [char |-> POLL, mode |-> mode])
            /\ UNCHANGED <<status, ret, was, ready>>
       ELSE /\ at' = "idle"
            /\ Leave
            /\ ReturnStatus(status)
            /\ UNCHANGED <<input, inbox>>
    /\ UNCHANGED <<driver, buffer, index, mode, listening, dropped, asked, cut>>

\* Mutant: the overflow bit survives the messages that follow.
NeverCleared == status

\* The overflow bit after the callbacks ran.
AfterDispatch == IF was /\ ~dropped THEN status \ {"RX_OVERFLOW"} ELSE status

\* The callbacks have returned.
Finish ==
    /\ at = "dispatch"
    /\ at' = "idle"
    /\ index' = 0
    /\ Leave
    /\ ReturnStatus(AfterDispatch)
    /\ cut' = FALSE
    /\ UNCHANGED <<driver, buffer, mode, listening, dropped, asked, input, inbox>>

Update ==
    \/ BeginUpdate
    \/ ReadDelimiter
    \/ SkipDelimiter
    \/ StoreChar
    \/ DropChar
    \/ PollDone
    \/ Finish

-----------------------------------------------------------------------------
(* The other calls: by the program between updates, or by a callback       *)

InControl == at = "idle" \/ (at = "dispatch" /\ listening)

\* mc_stream_init, whose driver may or may not empty its own queue.  That no
\* callback calls it inside an update is a discipline of the callers: the code
\* does not stop one.
mc_stream_init ==
    /\ at = "idle"
    /\ status' = {}
    /\ index' = 0
    /\ listening' = FALSE
    /\ wire' \in {wire, <<>>}
    /\ input' = <<>> /\ inbox' = <<>> /\ cut' = FALSE
    /\ dropped' = FALSE
    /\ UNCHANGED <<hw, arrived, buffer, mode, at, was, ready, ret, asked>>

\* mc_stream_write, and mc_stream_printf and mc_stream_vprintf of a text, which
\* format into tx_buffer and call it: how much of the text write_char took is
\* lost on the caller, who is told the status and nothing else.  To print an
\* empty text returns MC_OK and touches nothing: a stutter.
mc_stream_write ==
    /\ InControl
    /\ ReturnStatus(status)
    /\ UNCHANGED <<driver, buffer, index, mode, listening, locals, asked, history>>

mc_stream_get_status ==
    /\ InControl
    /\ asked' = TRUE
    /\ UNCHANGED <<driver, state, locals, ret, history>>

mc_stream_register_rx_callback ==
    /\ InControl
    /\ listening' = TRUE
    /\ UNCHANGED <<driver, buffer, index, mode, status, locals, ret, asked, history>>

mc_stream_set_mode(m) ==
    /\ InControl
    /\ mode' = m
    /\ UNCHANGED <<driver, buffer, index, status, listening, locals, ret, asked, history>>

-----------------------------------------------------------------------------

Init ==
    /\ wire = <<>> /\ hw = {} /\ arrived = 0
    /\ buffer = [i \in 0..(RxLen - 1) |-> NUL]   \* static storage
    /\ index = 0
    /\ mode \in Modes
    /\ status = {}
    /\ listening = FALSE
    /\ at = "idle" /\ was = FALSE /\ dropped = FALSE /\ ready = FALSE
    /\ ret = "MC_OK"
    /\ asked = FALSE
    /\ input = <<>> /\ inbox = <<>> /\ cut = FALSE

Environment == Arrive(NL) \/ Arrive(arrived + 1) \/ HwChanges

Calls ==
    \/ mc_stream_init
    \/ mc_stream_write
    \/ mc_stream_get_status
    \/ mc_stream_register_rx_callback
    \/ \E m \in Modes : mc_stream_set_mode(m)

Next == Update \/ Environment \/ Calls

\* The main loop of the program calls mc_stream_update for ever, and it runs on
\* once called; nothing is assumed of the hardware.
Spec == Init /\ [][Next]_vars /\ WF_vars(Update)

-----------------------------------------------------------------------------
(* Properties                                                              *)

Returns ==
    {"MC_OK", "MC_ERROR", "MC_ERROR_NO_RESPONSE", "MC_ERROR_BUSY", "MC_ERROR_NO_RESOURCE"}

TypeOK ==
    /\ wire \in Seq(Chars) /\ hw \in HwStates /\ arrived \in 0..MaxArrivals
    /\ buffer \in [0..(RxLen - 1) -> Chars \union {NUL}]
    /\ index \in 0..(RxLen - 1)
    /\ mode \in Modes /\ status \in SUBSET Flags /\ listening \in BOOLEAN
    /\ at \in {"idle", "reading", "dispatch"}
    /\ was \in BOOLEAN /\ dropped \in BOOLEAN /\ ready \in BOOLEAN
    /\ ret \in Returns /\ asked \in BOOLEAN
    /\ input \in Seq(Items) /\ inbox \in Seq(Seq(Chars \union {NUL})) /\ cut \in BOOLEAN

(***************************************************************************)
(* The messages a stream owes for what it read.  A break is a newline read *)
(* in text mode, or the end of a binary update; a message is what lies     *)
(* between two breaks if that is not empty, cut to the room in the buffer. *)
(***************************************************************************)
IsBreak(e) == (e.mode = "TEXT_LINE" /\ e.char = NL) \/ e.char = POLL

Spans ==
    {s \in (1..Len(input)) \X (1..(Len(input) - 1)) :
        /\ s[1] <= s[2]
        /\ \A k \in s[1]..s[2] : ~IsBreak(input[k])
        /\ s[1] = 1 \/ IsBreak(input[s[1] - 1])
        /\ IsBreak(input[s[2] + 1])}

TextOf(span) ==
    [k \in 1..(IF span[2] - span[1] + 1 < RxLen THEN span[2] - span[1] + 1 ELSE RxLen - 1) |->
        input[span[1] + k - 1].char]

\* Which of the messages a span is.
Rank(span) == Cardinality({s \in Spans : s[1] <= span[1]})

\* With one byte for the buffer there is room for the NUL only, and a line of
\* lost characters is not delivered at all (stream.c:122, 134).
RoomForText == RxLen > 1

\* However the input is split over updates, whatever mode it is read in and
\* whenever the hardware fails, the messages handed to the callbacks are those
\* of the text read, whole or cut at the end, each once and in order
\* (stream.c:117-158).
MessagesAreLines ==
    /\ Len(inbox) = Cardinality(Spans)
    /\ \A span \in Spans : inbox[Rank(span)] = TextOf(span)

\* A message that lost characters is flagged from the first lost one until its
\* callbacks have returned: a callback that looks at the status always learns
\* that the text it was given is not what was sent (stream.c:141-145).
CutIsFlagged == cut => "RX_OVERFLOW" \in status

\* An update that threw a character away never says MC_OK, even when it also
\* delivered a message and callbacks used the stream meanwhile
\* (stream.c:163-172).
DropIsReported == at = "idle" /\ dropped => ret # "MC_OK"

\* A line handed to the callbacks ends in a NUL at its length, inside the
\* buffer: a callback that takes it for a C string reads that line.
TextIsTerminated ==
    at = "dispatch" /\ Last(input).mode = "TEXT_LINE" => buffer[index] = NUL

\* The overflow bit does not outlive its cause: an update that delivers a
\* message and loses nothing leaves it clear (test_stream.cpp:140-147).
RecoversFromOverflow ==
    [][at = "dispatch" /\ at' = "idle" /\ ~dropped => "RX_OVERFLOW" \notin status' \ hw]_vars

\* If the hardware is well from some time on, what it received gets read,
\* whatever its failures and the lost characters left in the status.
InputIsRead == <>[](hw = {}) => (wire # <<>> ~> wire = <<>>)

-----------------------------------------------------------------------------
(* What the comments say                                                   *)

\* stream.c:163-164, "Reset RX overflow bit only if last message was overflow,
\* but this message is no longer overflow."
ResetOnlyForWholeMessage ==
    [][at = "dispatch" /\ at' = "idle" /\ cut =>
        ("RX_OVERFLOW" \in status => "RX_OVERFLOW" \in status')]_vars

\* stream.h:123-126, "Get current status flags. Also clears sticky error flags
\* (OVERFLOW) after reading."
StatusReadClearsOverflow ==
    [][mc_stream_get_status => "RX_OVERFLOW" \notin status']_vars
=============================================================================
