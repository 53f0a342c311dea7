---------------------------- MODULE StreamProofs ----------------------------
(***************************************************************************)
(* For every buffer length, every driver and any number of characters: the *)
(* index stays inside the buffer, no loss goes unflagged or unreported, and *)
(* lines are terminated; and what is delivered is the text that was read,  *)
(* each line once and in order.                                            *)
(***************************************************************************)
EXTENDS Stream, FiniteSetTheorems, TLAPS

(***************************************************************************)
(* What the properties rest on.  DropIsReported is not inductive: it is    *)
(* the overflow bit that carries the news of a drop to the return of the   *)
(* update, and of the writes that follow, through every driver report.     *)
(* TextIsTerminated needs to know that line_ready is set, while            *)
(* characters are read, in binary mode only.                               *)
(***************************************************************************)
DropIsFlagged == dropped => "RX_OVERFLOW" \in status

ReadyIsBinary ==
    /\ at = "idle" => ~ready
    /\ at = "reading" /\ ready => mode = "BINARY_STREAM"

InputAtDispatch == at = "dispatch" => input # <<>>

IInv ==
    /\ TypeOK
    /\ CutIsFlagged
    /\ DropIsReported
    /\ DropIsFlagged
    /\ ReadyIsBinary
    /\ InputAtDispatch
    /\ TextIsTerminated

-----------------------------------------------------------------------------

\* The conversion is total, and never calls an overflow MC_OK (stream.c:13-32).
LEMMA ConvertStatus ==
    ASSUME NEW s \in SUBSET Flags
    PROVE  /\ convert_status(s) \in Returns
           /\ "RX_OVERFLOW" \in s => convert_status(s) # "MC_OK"
  BY DEF convert_status, Returns, Flags

\* update_status keeps the overflow bit and adds nothing the driver does not
\* report (stream.c:35-40).
LEMMA ReturnStatusFacts ==
    ASSUME StreamAssumption, TypeOK, NEW s \in SUBSET Flags, ReturnStatus(s)
    PROVE  /\ status' \in SUBSET Flags
           /\ ret' \in Returns
           /\ "RX_OVERFLOW" \in s => "RX_OVERFLOW" \in status' /\ ret' # "MC_OK"
           /\ "RX_OVERFLOW" \in status' \ hw => "RX_OVERFLOW" \in s
  <1>1. Refreshed(s) \in SUBSET Flags
    BY DEF Refreshed, StreamAssumption, TypeOK
  <1>2. "RX_OVERFLOW" \in s => "RX_OVERFLOW" \in Refreshed(s)
    BY DEF Refreshed
  <1>3. "RX_OVERFLOW" \in Refreshed(s) \ hw => "RX_OVERFLOW" \in s
    BY DEF Refreshed
  <1>4. status' = Refreshed(s) /\ ret' = convert_status(Refreshed(s))
    BY DEF ReturnStatus
  <1>5. /\ convert_status(Refreshed(s)) \in Returns
        /\ "RX_OVERFLOW" \in Refreshed(s) => convert_status(Refreshed(s)) # "MC_OK"
    BY <1>1, ConvertStatus
  <1> QED
    BY <1>1, <1>2, <1>3, <1>4, <1>5

\* The buffer's text up to index is a sequence of what the buffer holds.
LEMMA MessageType ==
    ASSUME StreamAssumption, TypeOK
    PROVE  Message \in Seq(Chars \union {NUL})
  <1>1. \A i \in 1..index : i - 1 \in 0..(RxLen - 1)
    BY DEF TypeOK, StreamAssumption
  <1>2. Message \in [1..index -> Chars \union {NUL}]
    BY <1>1 DEF Message, TypeOK
  <1>3. index \in Nat
    BY DEF TypeOK, StreamAssumption
  <1> QED
    BY <1>2, <1>3

\* What reading one character does, in every branch of the loop.
LEMMA ReadsFacts ==
    ASSUME StreamAssumption, TypeOK, Reads
    PROVE  /\ Head(wire) \in Chars
           /\ wire' \in Seq(Chars)
           /\ input' \in Seq(Items)
           /\ input' # <<>>
           /\ Last(input').mode = mode
  <1>1. Head(wire) \in Chars /\ wire' \in Seq(Chars)
    BY DEF TypeOK, Reads
  <1> DEFINE item == [char |-> Head(wire), mode |-> mode]
  <1>2. item \in Items
    BY <1>1 DEF Items, TypeOK
  <1>3. input' = Append(input, item) /\ input \in Seq(Items)
    BY DEF Reads, TypeOK
  <1> HIDE DEF item
  <1>4. input' \in Seq(Items) /\ Len(input') = Len(input) + 1
        /\ input'[Len(input) + 1] = item
    BY <1>2, <1>3
  <1>5. Last(input') = item
    BY <1>3, <1>4 DEF Last
  <1>6. item.mode = mode
    BY DEF item
  <1> QED
    BY <1>1, <1>3, <1>4, <1>5, <1>6

-----------------------------------------------------------------------------

LEMMA InitSafe == StreamAssumption /\ Init => IInv
  <1> SUFFICES ASSUME StreamAssumption, Init PROVE IInv
    OBVIOUS
  <1>1. TypeOK
    BY DEF StreamAssumption, Init, TypeOK, Flags, Returns
  <1> QED
    BY <1>1 DEF Init, IInv, CutIsFlagged, DropIsReported, DropIsFlagged,
       ReadyIsBinary, InputAtDispatch, TextIsTerminated

\* One character is read.
LEMMA ReadsSafe ==
    ASSUME StreamAssumption, IInv,
           ReadDelimiter \/ SkipDelimiter \/ StoreChar \/ DropChar
    PROVE  IInv'
  <1>1. TypeOK
    BY DEF IInv
  <1>2. Reads
    BY DEF ReadDelimiter, SkipDelimiter, StoreChar, DropChar
  <1>3. /\ Head(wire) \in Chars
        /\ wire' \in Seq(Chars)
        /\ input' \in Seq(Items)
        /\ input' # <<>>
        /\ Last(input').mode = mode
    BY <1>1, <1>2, ReadsFacts
  <1>4. /\ at = "reading"
        /\ UNCHANGED <<hw, arrived, mode, listening, was, asked>>
    BY <1>2 DEF Reads
  <1>5. ReadyAfter \in BOOLEAN
    BY <1>1 DEF ReadyAfter, TypeOK
  <1>6. CASE ReadDelimiter
    <2>1. /\ buffer' = [buffer EXCEPT ![index] = NUL]
          /\ ready' = TRUE /\ at' = "dispatch"
          /\ inbox' = Append(inbox, Message)
          /\ UNCHANGED <<index, status, dropped, ret, cut>>
      BY <1>6 DEF ReadDelimiter
    <2>2. buffer' \in [0..(RxLen - 1) -> Chars \union {NUL}] /\ buffer'[index] = NUL
      BY <1>1, <2>1 DEF TypeOK
    <2>3. inbox' \in Seq(Seq(Chars \union {NUL}))
      BY <1>1, <2>1, MessageType DEF TypeOK
    <2>4. TypeOK'
      BY <1>1, <1>3, <1>4, <2>1, <2>2, <2>3 DEF TypeOK
    <2> QED
      BY <1>3, <1>4, <2>1, <2>2, <2>4 DEF IInv, CutIsFlagged, DropIsReported,
         DropIsFlagged, ReadyIsBinary, InputAtDispatch, TextIsTerminated
  <1>7. CASE SkipDelimiter
    <2>1. ready' = ReadyAfter /\ UNCHANGED <<buffer, index, status, at, dropped, ret, inbox, cut>>
      BY <1>7 DEF SkipDelimiter
    <2>2. TypeOK'
      BY <1>1, <1>3, <1>4, <1>5, <2>1 DEF TypeOK
    <2> QED
      BY <1>1, <1>4, <2>1, <2>2 DEF IInv, CutIsFlagged, DropIsReported, TypeOK,
         DropIsFlagged, ReadyIsBinary, InputAtDispatch, TextIsTerminated, ReadyAfter
  <1>8. CASE StoreChar
    <2>1. /\ index < RxLen - 1
          /\ buffer' = [buffer EXCEPT ![index] = Head(wire)]
          /\ index' = index + 1
          /\ ready' = ReadyAfter
          /\ UNCHANGED <<status, at, dropped, ret, inbox, cut>>
      BY <1>8 DEF StoreChar
    <2>2. buffer' \in [0..(RxLen - 1) -> Chars \union {NUL}]
      BY <1>1, <1>3, <2>1 DEF TypeOK
    <2>3. index' \in 0..(RxLen - 1)
      BY <1>1, <2>1 DEF TypeOK, StreamAssumption
    <2>4. TypeOK'
      BY <1>1, <1>3, <1>4, <1>5, <2>1, <2>2, <2>3 DEF TypeOK
    <2> QED
      BY <1>1, <1>4, <2>1, <2>4 DEF IInv, CutIsFlagged, DropIsReported, TypeOK,
         DropIsFlagged, ReadyIsBinary, InputAtDispatch, TextIsTerminated, ReadyAfter
  <1>9. CASE DropChar
    <2>1. /\ status' = status \union {"RX_OVERFLOW"}
          /\ dropped' = TRUE
          /\ ready' = ReadyAfter
          /\ cut' = TRUE
          /\ UNCHANGED <<buffer, index, at, ret, inbox>>
      BY <1>9 DEF DropChar
    <2>2. status' \in SUBSET Flags /\ "RX_OVERFLOW" \in status'
      BY <1>1, <2>1 DEF TypeOK, Flags
    <2>3. TypeOK'
      BY <1>1, <1>3, <1>4, <1>5, <2>1, <2>2 DEF TypeOK
    <2> QED
      BY <1>1, <1>4, <2>1, <2>2, <2>3 DEF IInv, CutIsFlagged, DropIsReported, TypeOK,
         DropIsFlagged, ReadyIsBinary, InputAtDispatch, TextIsTerminated, ReadyAfter
  <1> QED
    BY <1>6, <1>7, <1>8, <1>9

\* The ends of an update.
LEMMA EndsSafe ==
    ASSUME StreamAssumption, IInv, PollDone \/ Finish
    PROVE  IInv'
  <1>1. TypeOK
    BY DEF IInv
  <1>2. CASE PollDone /\ ready
    <2>1. /\ at = "reading" /\ at' = "dispatch"
          /\ inbox' = Append(inbox, Message)
          /\ input' = Append(input, [char |-> POLL, mode |-> mode])
          /\ UNCHANGED <<driver, state, was, dropped, ready, ret, asked, cut>>
      BY <1>2 DEF PollDone, NoMore, state
    <2>2. inbox' \in Seq(Seq(Chars \union {NUL}))
      BY <1>1, <2>1, MessageType DEF TypeOK
    <2> DEFINE item == [char |-> POLL, mode |-> mode]
    <2>3. item \in Items
      BY <1>1 DEF Items, TypeOK
    <2>4. mode = "BINARY_STREAM"
      BY <1>2, <2>1 DEF IInv, ReadyIsBinary
    <2>5. item.mode # "TEXT_LINE"
      BY <2>4
    <2>6. input \in Seq(Items) /\ input' = Append(input, item)
      BY <1>1, <2>1 DEF TypeOK
    <2> HIDE DEF item
    <2>7. /\ input' \in Seq(Items) /\ input' # <<>>
          /\ Len(input') = Len(input) + 1 /\ input'[Len(input) + 1] = item
      BY <2>3, <2>6
    <2>8. Last(input').mode # "TEXT_LINE"
      BY <2>5, <2>7 DEF Last
    <2>9. TypeOK'
      BY <1>1, <2>1, <2>2, <2>7 DEF TypeOK, driver, state
    <2> QED
      BY <2>1, <2>7, <2>8, <2>9 DEF IInv, CutIsFlagged, DropIsReported, state,
         DropIsFlagged, ReadyIsBinary, InputAtDispatch, TextIsTerminated
  <1>3. CASE PollDone /\ ~ready
    <2>1. /\ at = "reading" /\ at' = "idle" /\ ready' = FALSE /\ was' = FALSE
          /\ ReturnStatus(status)
          /\ UNCHANGED <<driver, buffer, index, mode, listening, dropped, asked, history>>
      BY <1>3 DEF PollDone, NoMore, Leave, history
    <2>2. status \in SUBSET Flags
      BY <1>1 DEF TypeOK
    <2>3. /\ status' \in SUBSET Flags
          /\ ret' \in Returns
          /\ "RX_OVERFLOW" \in status => "RX_OVERFLOW" \in status' /\ ret' # "MC_OK"
      BY <1>1, <2>1, <2>2, ReturnStatusFacts
    <2>4. TypeOK'
      BY <1>1, <2>1, <2>3 DEF TypeOK, driver, history
    <2> QED
      BY <2>1, <2>3, <2>4 DEF IInv, CutIsFlagged, DropIsReported, history,
         DropIsFlagged, ReadyIsBinary, InputAtDispatch, TextIsTerminated
  <1>4. CASE Finish
    <2>1. /\ at = "dispatch" /\ at' = "idle" /\ index' = 0 /\ cut' = FALSE
          /\ ready' = FALSE /\ was' = FALSE
          /\ ReturnStatus(AfterDispatch)
          /\ UNCHANGED <<driver, buffer, mode, listening, dropped, asked, input, inbox>>
      BY <1>4 DEF Finish, Leave
    <2>2. AfterDispatch \in SUBSET Flags
      BY <1>1 DEF TypeOK, AfterDispatch
    <2>3. dropped /\ "RX_OVERFLOW" \in status => "RX_OVERFLOW" \in AfterDispatch
      BY DEF AfterDispatch
    <2>4. /\ status' \in SUBSET Flags
          /\ ret' \in Returns
          /\ "RX_OVERFLOW" \in AfterDispatch => ret' # "MC_OK"
      BY <1>1, <2>1, <2>2, ReturnStatusFacts
    <2>8. 0 \in 0..(RxLen - 1)
      BY DEF StreamAssumption
    <2>5. TypeOK'
      BY <1>1, <2>1, <2>4, <2>8 DEF TypeOK, driver
    <2>7. dropped => "RX_OVERFLOW" \in status'
      BY <1>1, <2>1, <2>2, <2>3, ReturnStatusFacts DEF IInv, DropIsFlagged
    <2>6. dropped => ret' # "MC_OK"
      BY <2>1, <2>3, <2>4 DEF IInv, DropIsFlagged
    <2> QED
      BY <2>1, <2>5, <2>6, <2>7 DEF IInv, CutIsFlagged, DropIsReported,
         DropIsFlagged, ReadyIsBinary, InputAtDispatch, TextIsTerminated
  <1> QED
    BY <1>2, <1>3, <1>4

\* The hardware, and the start of an update.
LEMMA EnvironmentSafe ==
    ASSUME StreamAssumption, IInv, Environment \/ BeginUpdate
    PROVE  IInv'
  <1>1. TypeOK
    BY DEF IInv
  <1>2. CASE Arrive(NL) \/ Arrive(arrived + 1)
    <2>0. NL \in Chars /\ arrived + 1 \in Chars
      BY <1>1 DEF TypeOK, Chars, StreamAssumption
    <2>1. PICK c \in Chars : Arrive(c)
      BY <1>2, <2>0
    <2>2. /\ arrived' \in 0..MaxArrivals
          /\ wire' \in Seq(Chars)
          /\ UNCHANGED <<hw, state, locals, ret, asked, history>>
      BY <1>1, <2>1 DEF Arrive, TypeOK, StreamAssumption
    <2>3. TypeOK'
      BY <1>1, <2>2 DEF TypeOK, state, locals, history
    <2> QED
      BY <2>2, <2>3 DEF IInv, CutIsFlagged, DropIsReported, state, locals, history,
         DropIsFlagged, ReadyIsBinary, InputAtDispatch, TextIsTerminated
  <1>3. CASE HwChanges
    <2>1. TypeOK'
      BY <1>1, <1>3 DEF TypeOK, HwChanges, state, locals, history
    <2> QED
      BY <1>3, <2>1 DEF IInv, CutIsFlagged, DropIsReported, state, locals, history,
         DropIsFlagged, ReadyIsBinary, InputAtDispatch, TextIsTerminated, HwChanges
  <1>4. CASE BeginUpdate
    <2>0. was' \in BOOLEAN
      <3>1. was' = ("RX_OVERFLOW" \in status)
        BY <1>4, Zenon DEF BeginUpdate
      <3>2. ("RX_OVERFLOW" \in status) \in BOOLEAN
        OBVIOUS
      <3> QED
        BY <3>1, <3>2, Zenon
    <2>1. TypeOK'
      BY <1>1, <1>4, <2>0 DEF TypeOK, BeginUpdate, state, driver, history
    <2> QED
      BY <1>4, <2>1 DEF IInv, CutIsFlagged, DropIsReported, state, history,
         DropIsFlagged, ReadyIsBinary, InputAtDispatch, TextIsTerminated, BeginUpdate
  <1> QED
    BY <1>2, <1>3, <1>4 DEF Environment

\* The calls of the program and of the callbacks.
LEMMA CallsSafe ==
    ASSUME StreamAssumption, IInv, Calls
    PROVE  IInv'
  <1>1. TypeOK
    BY DEF IInv
  <1>2. CASE mc_stream_init
    <2>0. wire' = wire \/ wire' = <<>>
      BY <1>2 DEF mc_stream_init
    <2>5. /\ <<>> \in Seq(Chars) /\ <<>> \in Seq(Items)
          /\ <<>> \in Seq(Seq(Chars \union {NUL}))
      OBVIOUS
    <2>1. wire' \in Seq(Chars)
      BY <1>1, <2>0, <2>5, Zenon DEF TypeOK
    <2>4. 0 \in 0..(RxLen - 1)
      BY DEF StreamAssumption
    <2>6. input' = <<>> /\ inbox' = <<>>
      BY <1>2 DEF mc_stream_init
    <2>2. /\ input' \in Seq(Items) /\ inbox' \in Seq(Seq(Chars \union {NUL}))
      BY <2>5, <2>6, Zenon
    <2>7. /\ index' \in 0..(RxLen - 1) /\ status' \in SUBSET Flags
          /\ listening' \in BOOLEAN /\ cut' \in BOOLEAN /\ dropped' \in BOOLEAN
          /\ UNCHANGED <<hw, arrived, buffer, mode, at, was, ready, ret, asked>>
      BY <1>2, <2>4 DEF mc_stream_init
    <2>3. TypeOK'
      BY <1>1, <2>1, <2>2, <2>7 DEF TypeOK
    <2> QED
      BY <1>2, <2>3 DEF IInv, CutIsFlagged, DropIsReported, mc_stream_init,
         DropIsFlagged, ReadyIsBinary, InputAtDispatch, TextIsTerminated
  <1>3. CASE mc_stream_write
    <2>1. /\ InControl
          /\ ReturnStatus(status)
          /\ UNCHANGED <<driver, buffer, index, mode, listening, locals, asked, history>>
      BY <1>3 DEF mc_stream_write
    <2>2. status \in SUBSET Flags
      BY <1>1 DEF TypeOK
    <2>3. /\ status' \in SUBSET Flags
          /\ ret' \in Returns
          /\ "RX_OVERFLOW" \in status => "RX_OVERFLOW" \in status' /\ ret' # "MC_OK"
      BY <1>1, <2>1, <2>2, ReturnStatusFacts
    <2>4. TypeOK'
      BY <1>1, <2>1, <2>3 DEF TypeOK, driver, locals, history
    <2> QED
      BY <2>1, <2>3, <2>4 DEF IInv, CutIsFlagged, DropIsReported, locals, history,
         DropIsFlagged, ReadyIsBinary, InputAtDispatch, TextIsTerminated, InControl
  <1>4. CASE mc_stream_get_status \/ mc_stream_register_rx_callback
    <2>1. TypeOK'
      BY <1>1, <1>4 DEF TypeOK, mc_stream_get_status, mc_stream_register_rx_callback,
         driver, state, locals, history
    <2> QED
      BY <1>4, <2>1 DEF IInv, CutIsFlagged, DropIsReported, state, locals, history,
         DropIsFlagged, ReadyIsBinary, InputAtDispatch, TextIsTerminated,
         mc_stream_get_status, mc_stream_register_rx_callback
  <1>5. ASSUME NEW m \in Modes, mc_stream_set_mode(m) PROVE IInv'
    <2>1. TypeOK'
      BY <1>1, <1>5 DEF TypeOK, mc_stream_set_mode, driver, locals, history
    <2> QED
      BY <1>5, <2>1 DEF IInv, CutIsFlagged, DropIsReported, locals, history, InControl,
         DropIsFlagged, ReadyIsBinary, InputAtDispatch, TextIsTerminated, mc_stream_set_mode
  <1> QED
    BY <1>2, <1>3, <1>4, <1>5 DEF Calls

LEMMA StepSafe == StreamAssumption /\ IInv /\ [Next]_vars => IInv'
  <1> SUFFICES ASSUME StreamAssumption, IInv, [Next]_vars PROVE IInv'
    OBVIOUS
  <1>1. CASE Update
    BY <1>1, ReadsSafe, EndsSafe, EnvironmentSafe DEF Update
  <1>2. CASE Environment
    BY <1>2, EnvironmentSafe
  <1>3. CASE Calls
    BY <1>3, CallsSafe
  <1>4. CASE UNCHANGED vars
    BY <1>4 DEF vars, driver, state, locals, history, IInv, TypeOK, CutIsFlagged,
       DropIsReported, DropIsFlagged, ReadyIsBinary, InputAtDispatch, TextIsTerminated
  <1> QED
    BY <1>1, <1>2, <1>3, <1>4 DEF Next

\* Whatever arrives, fails and is called in whatever order: the index never
\* leaves the buffer, a message that lost characters is flagged until its
\* callbacks have returned, an update that lost characters does not return
\* MC_OK, and a line ends in a NUL (stream.c:107-173).
THEOREM StreamSafe == Spec => [](TypeOK /\ CutIsFlagged /\ DropIsReported /\ TextIsTerminated)
  <1>1. Init => IInv
    BY InitSafe, StreamAssumption
  <1>2. IInv /\ [Next]_vars => IInv'
    BY StepSafe, StreamAssumption
  <1>3. IInv => TypeOK /\ CutIsFlagged /\ DropIsReported /\ TextIsTerminated
    BY DEF IInv
  <1> QED
    BY <1>1, <1>2, <1>3, PTL DEF Spec

\* rx_index never leaves the buffer, so neither a character nor the NUL after a
\* line is written outside it (stream.c:117-158).
COROLLARY StreamTyped == Spec => []TypeOK
  BY StreamSafe, PTL

\* An update that lost a character says so in what it returns, whatever the
\* driver reports and the callbacks write meanwhile (stream.c:163-172).
COROLLARY StreamReportsDrops == Spec => []DropIsReported
  BY StreamSafe, PTL

\* Callbacks in line mode are shown a terminated string (stream.c:123-132).
COROLLARY StreamTerminates == Spec => []TextIsTerminated
  BY StreamSafe, PTL

-----------------------------------------------------------------------------
(***************************************************************************)
(* Recovery from an overflow, for a driver that reports none of its own:   *)
(* an overflow bit set since the update began comes from a drop.           *)
(***************************************************************************)
HwReportsNoOverflow == \A s \in HwStates : "RX_OVERFLOW" \notin s

BitHasCause == at # "idle" /\ ~was /\ ~dropped => "RX_OVERFLOW" \notin status

LEMMA CauseStep ==
    ASSUME StreamAssumption, HwReportsNoOverflow, TypeOK, BitHasCause, [Next]_vars
    PROVE  BitHasCause'
  <1>1. "RX_OVERFLOW" \notin hw
    BY DEF HwReportsNoOverflow, TypeOK
  <1>2. CASE ReadDelimiter \/ SkipDelimiter \/ StoreChar \/ DropChar
    BY <1>2 DEF ReadDelimiter, SkipDelimiter, StoreChar, DropChar, Reads, BitHasCause
  <1>3. CASE PollDone \/ Finish
    BY <1>3 DEF PollDone, NoMore, Finish, BitHasCause
  <1>4. CASE BeginUpdate
    BY <1>4 DEF BeginUpdate, state, BitHasCause
  <1>5. CASE Environment
    BY <1>5 DEF Environment, Arrive, HwChanges, state, locals, BitHasCause
  <1>6. CASE mc_stream_write
    <2>1. status' \in SUBSET Flags /\ ("RX_OVERFLOW" \in status' \ hw => "RX_OVERFLOW" \in status)
      BY <1>6, ReturnStatusFacts DEF mc_stream_write, TypeOK
    <2> QED
      BY <1>1, <1>6, <2>1 DEF mc_stream_write, locals, BitHasCause
  <1>7. CASE Calls /\ ~mc_stream_write
    BY <1>7 DEF Calls, mc_stream_init, mc_stream_get_status, state, locals, BitHasCause,
       mc_stream_register_rx_callback, mc_stream_set_mode
  <1>8. CASE UNCHANGED vars
    BY <1>8 DEF vars, state, locals, BitHasCause
  <1> QED
    BY <1>2, <1>3, <1>4, <1>5, <1>6, <1>7, <1>8 DEF Next, Update

\* An update that delivers a message and loses nothing leaves the overflow bit
\* clear, whatever its callbacks call (stream.c:163-169).
THEOREM StreamRecovers == HwReportsNoOverflow /\ Spec => RecoversFromOverflow
  <1> DEFINE Recovers ==
        at = "dispatch" /\ at' = "idle" /\ ~dropped => "RX_OVERFLOW" \notin status' \ hw
  <1>1. HwReportsNoOverflow /\ Init => BitHasCause
    BY DEF Init, BitHasCause
  <1>2. HwReportsNoOverflow /\ TypeOK /\ BitHasCause /\ [Next]_vars => BitHasCause'
    BY CauseStep, StreamAssumption
  <1>3. TypeOK /\ BitHasCause /\ [Next]_vars => [Recovers]_vars
    <2> SUFFICES ASSUME TypeOK, BitHasCause, [Next]_vars,
                        at = "dispatch", at' = "idle", ~dropped
                 PROVE  "RX_OVERFLOW" \notin status' \ hw
      OBVIOUS
    <2>1. Finish
      BY DEF Next, Update, Environment, Calls, vars, locals, BeginUpdate, Reads,
         ReadDelimiter, SkipDelimiter, StoreChar, DropChar, PollDone, NoMore, Arrive,
         HwChanges, mc_stream_init, mc_stream_write, mc_stream_get_status,
         mc_stream_register_rx_callback, mc_stream_set_mode
    <2>2. "RX_OVERFLOW" \notin AfterDispatch /\ AfterDispatch \in SUBSET Flags
      BY DEF BitHasCause, AfterDispatch, TypeOK
    <2> QED
      BY <2>1, <2>2, StreamAssumption, ReturnStatusFacts DEF Finish
  <1>4. Spec => []TypeOK
    BY StreamSafe, PTL
  <1>5. HwReportsNoOverflow => []HwReportsNoOverflow
    OBVIOUS
  <1> QED
    BY <1>1, <1>2, <1>3, <1>4, <1>5, PTL DEF Spec, RecoversFromOverflow

-----------------------------------------------------------------------------
(* The messages are the lines                                             *)

\* The text that no break has ended yet begins at b.
OpensAt(b) ==
    /\ b \in 1..(Len(input) + 1)
    /\ b = 1 \/ IsBreak(input[b - 1])
    /\ \A k \in b..Len(input) : ~IsBreak(input[k])

Room(n) == IF n < RxLen THEN n ELSE RxLen - 1

\* The buffer holds that text, as far as it has room; when callbacks run, it
\* holds what has just been delivered.
Holds(b) ==
    /\ at = "dispatch" => b = Len(input) + 1
    /\ at # "dispatch" =>
         /\ index = Room(Len(input) - b + 1)
         /\ \A i \in 1..index : buffer[i - 1] = input[b + i - 1].char
    /\ at = "reading" /\ ready => b <= Len(input)

LineInv ==
    /\ MessagesAreLines
    /\ \E b \in Nat : OpensAt(b) /\ Holds(b)

\* A span lies within what was read, and there are finitely many.
LEMMA SpanIs ==
    ASSUME TypeOK, NEW s \in Spans
    PROVE  /\ s = <<s[1], s[2]>>
           /\ s[1] \in Nat /\ s[2] \in Nat /\ Len(input) \in Nat
           /\ 1 <= s[1] /\ s[1] <= s[2] /\ s[2] + 1 <= Len(input)
           /\ \A k \in s[1]..s[2] : ~IsBreak(input[k])
           /\ s[1] = 1 \/ IsBreak(input[s[1] - 1])
           /\ IsBreak(input[s[2] + 1])
<1>1. Len(input) \in Nat
  BY DEF TypeOK
<1>2. s \in (1..Len(input)) \X (1..(Len(input) - 1))
  BY DEF Spans
<1>3. s = <<s[1], s[2]>> /\ s[1] \in 1..Len(input) /\ s[2] \in 1..(Len(input) - 1)
  BY <1>2
<1>4. /\ s[1] <= s[2]
      /\ \A k \in s[1]..s[2] : ~IsBreak(input[k])
      /\ s[1] = 1 \/ IsBreak(input[s[1] - 1])
      /\ IsBreak(input[s[2] + 1])
  BY DEF Spans
<1> QED BY <1>1, <1>3, <1>4

LEMMA SpansFinite ==
    ASSUME TypeOK
    PROVE  IsFiniteSet(Spans) /\ Cardinality(Spans) \in Nat
<1> DEFINE P == (1..Len(input)) \X (1..(Len(input) - 1))
<1>1. Len(input) \in Nat
  BY DEF TypeOK
<1>2. IsFiniteSet(1..Len(input)) /\ IsFiniteSet(1..(Len(input) - 1))
  BY <1>1, FS_Interval
<1>3. IsFiniteSet(P)
  BY <1>2, FS_Product
<1>4. Spans \subseteq P
  BY DEF Spans
<1>5. IsFiniteSet(Spans)
  <2> HIDE DEF P
  <2> QED BY <1>3, <1>4, FS_Subset
<1> QED BY <1>5, FS_CardinalityType

\* The message that a span became is one of the inbox.
LEMMA RankIs ==
    ASSUME TypeOK, NEW s \in Spans
    PROVE  Rank(s) \in 1..Cardinality(Spans)
<1> DEFINE T == {t \in Spans : t[1] <= s[1]}
<1>1. T \subseteq Spans /\ s \in T
  BY SpanIs
<1>2. IsFiniteSet(Spans) /\ Cardinality(Spans) \in Nat
  BY SpansFinite
<1> HIDE DEF T
<1>3. IsFiniteSet(T) /\ Cardinality(T) <= Cardinality(Spans)
  BY <1>1, <1>2, FS_Subset
<1>4. Cardinality(T) \in Nat /\ (Cardinality(T) = 0 => T = {})
  BY <1>3, FS_CardinalityType, FS_EmptySet
<1>5. Cardinality(T) \in 1..Cardinality(Spans)
  BY <1>1, <1>2, <1>3, <1>4
<1> QED BY <1>5 DEF Rank, T

\* One more item was read.
LEMMA InputGrows ==
    ASSUME TypeOK, NEW e \in Items, input' = Append(input, e)
    PROVE  /\ Len(input) \in Nat /\ Len(input') = Len(input) + 1
           /\ input'[Len(input) + 1] = e
           /\ \A k \in 1..Len(input) : input'[k] = input[k]
BY DEF TypeOK

\* A character that ends nothing leaves the messages as they are.
LEMMA SpansStay ==
    ASSUME TypeOK, NEW e \in Items, input' = Append(input, e), ~IsBreak(e)
    PROVE  Spans' = Spans
<1> DEFINE N == Len(input)
<1>1. /\ N \in Nat /\ Len(input') = N + 1 /\ input'[N + 1] = e
      /\ \A k \in 1..N : input'[k] = input[k]
  BY InputGrows
<1> HIDE DEF N
<1>2. Spans = {s \in (1..N) \X (1..(N - 1)) :
                /\ s[1] <= s[2]
                /\ \A k \in s[1]..s[2] : ~IsBreak(input[k])
                /\ s[1] = 1 \/ IsBreak(input[s[1] - 1])
                /\ IsBreak(input[s[2] + 1])}
  BY DEF Spans, N
<1>3. Spans' = {s \in (1..(N + 1)) \X (1..((N + 1) - 1)) :
                /\ s[1] <= s[2]
                /\ \A k \in s[1]..s[2] : ~IsBreak(input'[k])
                /\ s[1] = 1 \/ IsBreak(input'[s[1] - 1])
                /\ IsBreak(input'[s[2] + 1])}
  BY <1>1 DEF Spans, IsBreak
<1>4. ASSUME NEW s \in Spans PROVE s \in Spans'
  <2>1. s \in (1..N) \X (1..(N - 1)) /\ s[1] <= s[2]
        /\ s[1] \in 1..N /\ s[2] \in 1..(N - 1)
    BY <1>2
  <2>2. \A k \in s[1]..s[2] : ~IsBreak(input'[k])
    BY <1>1, <1>2, <2>1
  <2>3. s[1] = 1 \/ IsBreak(input'[s[1] - 1])
    BY <1>1, <1>2, <2>1
  <2>4. IsBreak(input'[s[2] + 1])
    BY <1>1, <1>2, <2>1
  <2>5. s \in (1..(N + 1)) \X (1..((N + 1) - 1))
    BY <1>1, <2>1
  <2> QED BY <1>3, <2>1, <2>2, <2>3, <2>4, <2>5
<1>5. ASSUME NEW s \in Spans' PROVE s \in Spans
  <2>1. s \in (1..(N + 1)) \X (1..((N + 1) - 1)) /\ s[1] <= s[2]
        /\ s[1] \in 1..(N + 1) /\ s[2] \in 1..N
    BY <1>1, <1>3
  <2>2. s[2] # N
    BY <1>1, <1>3
  <2>3. s[1] \in 1..N /\ s[2] \in 1..(N - 1)
    BY <1>1, <2>1, <2>2
  <2>4. \A k \in s[1]..s[2] : ~IsBreak(input[k])
    BY <1>1, <1>3, <2>3
  <2>5. s[1] = 1 \/ IsBreak(input[s[1] - 1])
    BY <1>1, <1>3, <2>3
  <2>6. IsBreak(input[s[2] + 1])
    BY <1>1, <1>3, <2>3
  <2>7. s \in (1..N) \X (1..(N - 1))
    BY <2>1, <2>3
  <2> QED BY <1>2, <2>1, <2>4, <2>5, <2>6, <2>7
<1> QED BY <1>4, <1>5

\* A break ends the text before it, if there is any.
LEMMA SpansGrow ==
    ASSUME TypeOK, NEW e \in Items, input' = Append(input, e), IsBreak(e),
           NEW b \in Nat, OpensAt(b)
    PROVE  Spans' = Spans \union (IF b <= Len(input) THEN {<<b, Len(input)>>} ELSE {})
<1> DEFINE N == Len(input)
<1>1. /\ N \in Nat /\ Len(input') = N + 1 /\ input'[N + 1] = e
      /\ \A k \in 1..N : input'[k] = input[k]
  BY InputGrows
<1>0. /\ b \in 1..(N + 1)
      /\ b = 1 \/ IsBreak(input[b - 1])
      /\ \A k \in b..N : ~IsBreak(input[k])
  BY DEF OpensAt
<1> HIDE DEF N
<1>2. Spans = {s \in (1..N) \X (1..(N - 1)) :
                /\ s[1] <= s[2]
                /\ \A k \in s[1]..s[2] : ~IsBreak(input[k])
                /\ s[1] = 1 \/ IsBreak(input[s[1] - 1])
                /\ IsBreak(input[s[2] + 1])}
  BY DEF Spans, N
<1>3. Spans' = {s \in (1..(N + 1)) \X (1..((N + 1) - 1)) :
                /\ s[1] <= s[2]
                /\ \A k \in s[1]..s[2] : ~IsBreak(input'[k])
                /\ s[1] = 1 \/ IsBreak(input'[s[1] - 1])
                /\ IsBreak(input'[s[2] + 1])}
  BY <1>1 DEF Spans, IsBreak
<1>4. ASSUME NEW s \in Spans PROVE s \in Spans'
  <2>1. s \in (1..N) \X (1..(N - 1)) /\ s[1] <= s[2]
        /\ s[1] \in 1..N /\ s[2] \in 1..(N - 1)
    BY <1>2
  <2>2. \A k \in s[1]..s[2] : ~IsBreak(input'[k])
    BY <1>1, <1>2, <2>1
  <2>3. s[1] = 1 \/ IsBreak(input'[s[1] - 1])
    BY <1>1, <1>2, <2>1
  <2>4. IsBreak(input'[s[2] + 1])
    BY <1>1, <1>2, <2>1
  <2>5. s \in (1..(N + 1)) \X (1..((N + 1) - 1))
    BY <1>1, <2>1
  <2> QED BY <1>3, <2>1, <2>2, <2>3, <2>4, <2>5
<1>5. ASSUME b <= N PROVE <<b, N>> \in Spans'
  <2> DEFINE s == <<b, N>>
  <2>1. s[1] = b /\ s[2] = N /\ s \in (1..(N + 1)) \X (1..((N + 1) - 1))
    BY <1>0, <1>1, <1>5
  <2> HIDE DEF s
  <2>2. \A k \in s[1]..s[2] : ~IsBreak(input'[k])
    BY <1>0, <1>1, <2>1
  <2>3. s[1] = 1 \/ IsBreak(input'[s[1] - 1])
    BY <1>0, <1>1, <1>5, <2>1
  <2>4. IsBreak(input'[s[2] + 1])
    BY <1>1, <2>1
  <2>5. s \in Spans'
    BY <1>3, <1>5, <2>1, <2>2, <2>3, <2>4
  <2> QED BY <2>5 DEF s
<1>6. ASSUME NEW s \in Spans', s \notin Spans PROVE b <= N /\ s = <<b, N>>
  <2>1. s = <<s[1], s[2]>> /\ s[1] <= s[2]
        /\ s[1] \in 1..(N + 1) /\ s[2] \in 1..N
    BY <1>1, <1>3
  <2>2. /\ \A k \in s[1]..s[2] : ~IsBreak(input[k])
        /\ s[1] = 1 \/ IsBreak(input[s[1] - 1])
        /\ s[2] < N => IsBreak(input[s[2] + 1])
    <3>1. \A k \in s[1]..s[2] : ~IsBreak(input[k])
      BY <1>1, <1>3, <2>1
    <3>2. s[1] = 1 \/ IsBreak(input[s[1] - 1])
      BY <1>1, <1>3, <2>1
    <3>3. s[2] < N => IsBreak(input[s[2] + 1])
      BY <1>1, <1>3, <2>1
    <3> QED BY <3>1, <3>2, <3>3
  <2>3. s[2] = N
    <3> SUFFICES ASSUME s[2] # N PROVE FALSE
      OBVIOUS
    <3>1. s[2] < N /\ s[2] \in 1..(N - 1) /\ s[1] \in 1..N
      BY <1>1, <2>1
    <3>2. s \in (1..N) \X (1..(N - 1))
      BY <2>1, <3>1
    <3> QED BY <1>2, <1>6, <2>1, <2>2, <3>1, <3>2
  <2>4. s[1] = b
    <3>1. CASE s[1] < b
      <4>1. b # 1 /\ b - 1 \in s[1]..s[2] /\ IsBreak(input[b - 1])
        BY <1>0, <1>1, <2>1, <2>3, <3>1
      <4> QED BY <2>2, <4>1
    <3>2. CASE s[1] > b
      <4>1. s[1] # 1 /\ s[1] - 1 \in b..N /\ IsBreak(input[s[1] - 1])
        BY <1>0, <1>1, <2>1, <2>2, <2>3, <3>2
      <4> QED BY <1>0, <4>1
    <3> QED BY <1>0, <1>1, <2>1, <3>1, <3>2
  <2> QED BY <1>1, <2>1, <2>3, <2>4
<1>7. Spans' = Spans \union (IF b <= N THEN {<<b, N>>} ELSE {})
  <2>1. CASE b <= N
    BY <1>4, <1>5, <1>6, <2>1
  <2>2. CASE ~(b <= N)
    BY <1>4, <1>6, <2>2
  <2> QED BY <2>1, <2>2
<1> QED BY <1>7 DEF N

\* The texts of the messages do not change any more.
LEMMA TextStays ==
    ASSUME StreamAssumption, TypeOK, NEW e \in Items, input' = Append(input, e), NEW s \in Spans
    PROVE  TextOf(s)' = TextOf(s)
<1>1. /\ Len(input) \in Nat
      /\ \A k \in 1..Len(input) : input'[k] = input[k]
  BY InputGrows
<1>2. /\ s[1] \in Nat /\ s[2] \in Nat
      /\ 1 <= s[1] /\ s[1] <= s[2] /\ s[2] + 1 <= Len(input)
  BY SpanIs
<1> DEFINE n == IF s[2] - s[1] + 1 < RxLen THEN s[2] - s[1] + 1 ELSE RxLen - 1
<1>3. n \in Nat /\ n <= s[2] - s[1] + 1
  BY <1>2 DEF StreamAssumption
<1>4. TextOf(s) = [k \in 1..n |-> input[s[1] + k - 1].char]
      /\ TextOf(s)' = [k \in 1..n |-> input'[s[1] + k - 1].char]
  BY DEF TextOf
<1> HIDE DEF n
<1>5. \A k \in 1..n : s[1] + k - 1 \in 1..Len(input)
  BY <1>1, <1>2, <1>3
<1> QED BY <1>1, <1>4, <1>5

LEMMA MessagesStay ==
    ASSUME MessagesAreLines, Spans' = Spans, inbox' = inbox,
           \A s \in Spans : TextOf(s)' = TextOf(s)
    PROVE  MessagesAreLines'
<1>1. \A s \in Spans : Rank(s)' = Rank(s)
  BY DEF Rank
<1>2. Len(inbox) = Cardinality(Spans) /\ \A s \in Spans : inbox[Rank(s)] = TextOf(s)
  BY DEF MessagesAreLines
<1>3. Len(inbox') = Cardinality(Spans')
  BY <1>2
<1>4. \A s \in Spans' : (inbox[Rank(s)] = TextOf(s))'
  BY <1>1, <1>2
<1> QED BY <1>3, <1>4 DEF MessagesAreLines

\* The text behind all others is the last message.
LEMMA MessagesGrow ==
    ASSUME TypeOK, MessagesAreLines, NEW b \in Nat, NEW n \in Nat, <<b, n>> \notin Spans,
           Spans' = Spans \union {<<b, n>>}, \A s \in Spans : s[1] < b,
           inbox' = Append(inbox, TextOf(<<b, n>>)'),
           \A s \in Spans : TextOf(s)' = TextOf(s)
    PROVE  MessagesAreLines'
<1> DEFINE new == <<b, n>>
           C == Cardinality(Spans)
           text == TextOf(<<b, n>>)'
<1>1. /\ IsFiniteSet(Spans) /\ C \in Nat
      /\ \A s \in Spans : s[1] \in Nat
  BY SpansFinite, SpanIs
<1>2. new[1] = b
  OBVIOUS
<1>3. Cardinality(Spans') = C + 1
  <2> HIDE DEF new
  <2>1. new \notin Spans /\ Spans' = Spans \union {new}
    BY DEF new
  <2> QED BY <1>1, <2>1, FS_AddElement
<1>4. /\ Len(inbox) = C /\ \A s \in Spans : inbox[Rank(s)] = TextOf(s)
      /\ inbox \in Seq(Seq(Chars \union {NUL}))
  BY DEF MessagesAreLines, TypeOK
<1> HIDE DEF new, C, text
<1>5. inbox' = Append(inbox, text)
  BY DEF text
<1>6. Len(inbox') = C + 1 /\ inbox'[C + 1] = text /\ \A k \in 1..C : inbox'[k] = inbox[k]
  BY <1>1, <1>4, <1>5
<1>7. ASSUME NEW s \in Spans PROVE (inbox[Rank(s)] = TextOf(s))'
  <2>1. {t \in Spans' : t[1] <= s[1]} = {t \in Spans : t[1] <= s[1]}
    <3>1. ~(new[1] <= s[1])
      BY <1>1, <1>2
    <3> QED BY <3>1 DEF new
  <2>2. Rank(s)' = Rank(s)
    BY <2>1 DEF Rank
  <2>3. Rank(s) \in 1..C
    BY RankIs DEF C
  <2> QED BY <1>4, <1>6, <2>2, <2>3
<1>8. (inbox[Rank(<<b, n>>)] = TextOf(<<b, n>>))'
  <2>1. {t \in Spans' : t[1] <= new[1]} = Spans'
    BY <1>1, <1>2 DEF new
  <2>2. Rank(<<b, n>>)' = C + 1
    BY <1>3, <2>1 DEF Rank, new
  <2> QED BY <1>6, <2>2 DEF text
<1>9. \A s \in Spans' : (inbox[Rank(s)] = TextOf(s))'
  BY <1>7, <1>8
<1> QED BY <1>3, <1>6, <1>9 DEF MessagesAreLines, C

-----------------------------------------------------------------------------

LEMMA RoomIs ==
    ASSUME StreamAssumption, RoomForText, NEW n \in Nat
    PROVE  /\ Room(n) \in Nat /\ Room(n) <= n /\ (Room(n) = 0 <=> n = 0)
           /\ Room(n) < RxLen - 1 => Room(n) = n /\ Room(n + 1) = n + 1
           /\ Room(n) >= RxLen - 1 => Room(n + 1) = Room(n)
BY DEF StreamAssumption, RoomForText, Room

\* An item that was read as text and is no delimiter, or one of a binary
\* stream, ends nothing.
LEMMA WhatEnds ==
    ASSUME StreamAssumption, TypeOK, Reads
    PROVE  /\ [char |-> Head(wire), mode |-> mode] \in Items
           /\ [char |-> Head(wire), mode |-> mode].char = Head(wire)
           /\ IsBreak([char |-> Head(wire), mode |-> mode]) <=> EndsLine
<1>1. Head(wire) \in Chars /\ mode \in Modes
  BY ReadsFacts DEF TypeOK
<1>2. Head(wire) # POLL
  BY <1>1 DEF Chars, StreamAssumption
<1> QED BY <1>1, <1>2 DEF Items, IsBreak, EndsLine

\* A character is stored or dropped.
LEMMA CharLines ==
    ASSUME StreamAssumption, RoomForText, TypeOK, LineInv, StoreChar \/ DropChar
    PROVE  LineInv'
<1> DEFINE e == [char |-> Head(wire), mode |-> mode]
           N == Len(input)
<1>1. /\ Reads /\ ~EndsLine /\ inbox' = inbox /\ at = "reading" /\ at' = at
      /\ input' = Append(input, e)
  BY DEF StoreChar, DropChar, Reads
<1>2. e \in Items /\ ~IsBreak(e) /\ e.char = Head(wire)
  BY <1>1, WhatEnds
<1> HIDE DEF e
<1>3. Spans' = Spans /\ \A s \in Spans : TextOf(s)' = TextOf(s)
  BY <1>1, <1>2, SpansStay, TextStays
<1>4. MessagesAreLines'
  BY <1>1, <1>3, MessagesStay DEF LineInv
<1>5. PICK b \in Nat : OpensAt(b) /\ Holds(b)
  BY DEF LineInv
<1>6. /\ N \in Nat /\ Len(input') = N + 1 /\ input'[N + 1] = e
      /\ \A k \in 1..N : input'[k] = input[k]
  BY <1>1, <1>2, InputGrows
<1>7. /\ b \in 1..(N + 1)
      /\ b = 1 \/ IsBreak(input[b - 1])
      /\ \A k \in b..N : ~IsBreak(input[k])
      /\ index = Room(N - b + 1)
      /\ \A i \in 1..index : buffer[i - 1] = input[b + i - 1].char
  BY <1>1, <1>5 DEF OpensAt, Holds
<1> HIDE DEF N
<1>8. OpensAt(b)'
  <2>1. b \in 1..(Len(input') + 1)
    BY <1>6, <1>7
  <2>2. b = 1 \/ IsBreak(input'[b - 1])
    BY <1>6, <1>7
  <2>3. \A k \in b..Len(input') : ~IsBreak(input'[k])
    BY <1>2, <1>6, <1>7
  <2> QED BY <2>1, <2>2, <2>3 DEF OpensAt, IsBreak
<1>9. /\ N - b + 1 \in Nat /\ Len(input') - b + 1 = (N - b + 1) + 1
      /\ b <= Len(input') /\ RxLen \in Nat
  BY <1>6, <1>7 DEF StreamAssumption
<1>10. CASE StoreChar
  <2>1. index < RxLen - 1 /\ index' = index + 1 /\ buffer' = [buffer EXCEPT ![index] = Head(wire)]
    BY <1>10 DEF StoreChar
  <2>2. index = N - b + 1 /\ index' = Room(Len(input') - b + 1)
    BY <1>7, <1>9, <2>1, RoomIs
  <2>3. index \in 0..(RxLen - 1) /\ buffer \in [0..(RxLen - 1) -> Chars \union {NUL}]
    BY DEF TypeOK
  <2>4. ASSUME NEW i \in 1..index' PROVE buffer'[i - 1] = input'[b + i - 1].char
    <3>1. CASE i = index'
      <4>1. i - 1 = index /\ b + i - 1 = N + 1
        <5>1. index \in Nat /\ index' = index + 1
          BY <1>9, <2>1, <2>3
        <5> QED BY <1>6, <1>9, <2>2, <3>1, <5>1
      <4> QED BY <1>2, <1>6, <2>1, <2>3, <4>1
    <3>2. CASE i # index'
      <4>1. i \in 1..index /\ i - 1 # index /\ i - 1 \in 0..(RxLen - 1) /\ b + i - 1 \in 1..N
        BY <1>6, <1>7, <1>9, <2>1, <2>2, <2>3, <3>2
      <4> QED BY <1>6, <1>7, <2>1, <2>3, <4>1
    <3> QED BY <3>1, <3>2
  <2>5. Holds(b)'
    BY <1>1, <1>9, <2>2, <2>4 DEF Holds, Room
  <2> QED BY <1>4, <1>8, <2>5 DEF LineInv
<1>11. CASE DropChar
  <2>1. index >= RxLen - 1 /\ UNCHANGED <<buffer, index>>
    BY <1>11 DEF DropChar
  <2>2. index' = Room(Len(input') - b + 1)
    BY <1>7, <1>9, <2>1, RoomIs
  <2>3. ASSUME NEW i \in 1..index' PROVE buffer'[i - 1] = input'[b + i - 1].char
    <3>1. index \in Nat /\ index <= N - b + 1
      BY <1>7, <1>9, RoomIs
    <3>2. i \in 1..index /\ b + i - 1 \in 1..N
      BY <1>6, <1>7, <1>9, <2>1, <3>1
    <3> QED BY <1>6, <1>7, <2>1, <3>2
  <2>4. Holds(b)'
    BY <1>1, <1>9, <2>2, <2>3 DEF Holds, Room
  <2> QED BY <1>4, <1>8, <2>4 DEF LineInv
<1> QED BY <1>10, <1>11

\* Behind a break the next text begins.
LEMMA OpensAfter ==
    ASSUME TypeOK, NEW e \in Items, IsBreak(e), input' = Append(input, e)
    PROVE  \E c \in Nat : c = Len(input') + 1 /\ OpensAt(c)'
<1>1. /\ Len(input) \in Nat /\ Len(input') = Len(input) + 1
      /\ input'[Len(input) + 1] = e
  BY InputGrows
<1>2. PICK c \in Nat : c = Len(input') + 1
  BY <1>1
<1>3. input'[c - 1] = e /\ c \in 1..(Len(input') + 1) /\ c..Len(input') = {}
  BY <1>1, <1>2
<1>4. OpensAt(c)'
  BY <1>3 DEF OpensAt, IsBreak
<1> QED BY <1>2, <1>4

\* A break with a text before it: that text is delivered.
LEMMA TextEnds ==
    ASSUME StreamAssumption, RoomForText, TypeOK, MessagesAreLines, at = "reading",
           NEW e \in Items, IsBreak(e), input' = Append(input, e),
           NEW b \in Nat, OpensAt(b), Holds(b), b <= Len(input),
           inbox' = Append(inbox, Message), at' = "dispatch"
    PROVE  LineInv'
<1>0. PICK N \in Nat : N = Len(input)
  BY DEF TypeOK
<1> DEFINE new == <<b, N>>
<1>1. /\ Len(input') = N + 1 /\ input'[N + 1] = e
      /\ \A k \in 1..N : input'[k] = input[k]
  BY <1>0, InputGrows
<1>2. /\ b \in 1..(N + 1)
      /\ index = Room(N - b + 1)
      /\ \A i \in 1..index : buffer[i - 1] = input[b + i - 1].char
  BY <1>0 DEF OpensAt, Holds
<1>3. Spans' = Spans \union {new}
  BY <1>0, SpansGrow
<1>4. \A s \in Spans : TextOf(s)' = TextOf(s)
  BY TextStays
<1>5. \A s \in Spans : s[1] < b
  <2> SUFFICES ASSUME NEW s \in Spans, ~(s[1] < b) PROVE FALSE
    BY SpanIs
  <2>1. /\ s[1] \in Nat /\ s[2] \in Nat
        /\ s[1] <= s[2] /\ s[2] + 1 <= N /\ IsBreak(input[s[2] + 1])
    BY <1>0, SpanIs
  <2>2. s[2] + 1 \in b..N
    BY <2>1
  <2> QED BY <1>0, <2>1, <2>2 DEF OpensAt
<1>6. new \notin Spans
  <2>1. new[1] = b
    OBVIOUS
  <2> HIDE DEF new
  <2> QED BY <1>5, <2>1
<1>7. TextOf(new)' = Message
  <2>1. new[1] = b /\ new[2] = N
    OBVIOUS
  <2> HIDE DEF new
  <2>2. TextOf(new)' = [k \in 1..Room(N - b + 1) |-> input'[b + k - 1].char]
    BY <2>1 DEF TextOf, Room
  <2>3. index \in Nat /\ index <= N - b + 1
    <3>1. N - b + 1 \in Nat
      BY <1>1, <1>2
    <3> QED BY <1>2, <3>1, RoomIs
  <2>4. ASSUME NEW k \in 1..index PROVE input'[b + k - 1].char = buffer[k - 1]
    <3>1. b + k - 1 \in 1..N
      BY <1>1, <1>2, <2>3
    <3> QED BY <1>1, <1>2, <3>1
  <2> QED BY <1>2, <2>2, <2>4 DEF Message
<1>8. MessagesAreLines'
  BY <1>3, <1>4, <1>5, <1>6, <1>7, MessagesGrow
<1>9. PICK c \in Nat : c = Len(input') + 1 /\ OpensAt(c)'
  BY OpensAfter
<1>10. Holds(c)'
  BY <1>9 DEF Holds
<1> QED BY <1>8, <1>9, <1>10 DEF LineInv

LEMMA DelimiterLines ==
    ASSUME StreamAssumption, RoomForText, TypeOK, ReadyIsBinary, LineInv,
           ReadDelimiter \/ SkipDelimiter
    PROVE  LineInv'
<1> DEFINE e == [char |-> Head(wire), mode |-> mode]
           N == Len(input)
<1>1. Reads /\ EndsLine /\ at = "reading" /\ input' = Append(input, e)
  BY DEF ReadDelimiter, SkipDelimiter, Reads
<1>2. e \in Items /\ IsBreak(e)
  BY <1>1, WhatEnds
<1> HIDE DEF e
<1>3. PICK b \in Nat : OpensAt(b) /\ Holds(b)
  BY DEF LineInv
<1>4. /\ b \in 1..(N + 1) /\ N \in Nat /\ N - b + 1 \in Nat
      /\ index = Room(N - b + 1)
  BY <1>1, <1>3, InputGrows, <1>2 DEF OpensAt, Holds
<1>5. CASE ReadDelimiter
  <2>1. index > 0 /\ inbox' = Append(inbox, Message) /\ at' = "dispatch"
    BY <1>5 DEF ReadDelimiter
  <2>2. b <= N
    <3>1. N - b + 1 # 0
      BY <1>4, <2>1, RoomIs
    <3> QED BY <1>4, <3>1
  <2> QED BY <1>1, <1>2, <1>3, <2>1, <2>2, TextEnds DEF LineInv
<1>6. CASE SkipDelimiter
  <2>1. index = 0 /\ ready' = ReadyAfter /\ UNCHANGED <<buffer, index, inbox, at>>
    BY <1>6 DEF SkipDelimiter
  <2>2. ~ready'
    BY <1>1, <2>1 DEF ReadyIsBinary, ReadyAfter, EndsLine
  <2>3. b = N + 1
    <3>1. N - b + 1 = 0
      BY <1>4, <2>1, RoomIs
    <3> QED BY <1>4, <3>1
  <2>4. Spans' = Spans
    <3>1. ~(b <= Len(input))
      BY <1>4, <2>3
    <3>2. Spans' = Spans \union (IF b <= Len(input) THEN {<<b, Len(input)>>} ELSE {})
      BY <1>1, <1>2, <1>3, SpansGrow
    <3> QED BY <3>1, <3>2
  <2>5. \A s \in Spans : TextOf(s)' = TextOf(s)
    BY <1>1, <1>2, TextStays
  <2>6. MessagesAreLines'
    BY <2>1, <2>4, <2>5, MessagesStay DEF LineInv
  <2>7. PICK c \in Nat : c = Len(input') + 1 /\ OpensAt(c)'
    BY <1>1, <1>2, OpensAfter
  <2>8. Len(input') - c + 1 = 0 /\ Room(0) = 0
    BY <1>1, <1>2, <2>7, InputGrows, RoomIs
  <2>9. Holds(c)'
    BY <1>1, <2>1, <2>2, <2>7, <2>8 DEF Holds, Room
  <2> QED BY <2>6, <2>7, <2>9 DEF LineInv
<1> QED BY <1>5, <1>6

LEMMA SameLines ==
    ASSUME UNCHANGED <<input, inbox>>, NEW b
    PROVE  /\ MessagesAreLines => MessagesAreLines'
           /\ OpensAt(b) => OpensAt(b)'
<1>1. Spans' = Spans
  BY DEF Spans, IsBreak
<1>2. \A s \in Spans : TextOf(s)' = TextOf(s)
  BY DEF TextOf
<1>3. MessagesAreLines => MessagesAreLines'
  BY <1>1, <1>2, MessagesStay
<1>4. OpensAt(b) => OpensAt(b)'
  BY DEF OpensAt, IsBreak
<1> QED BY <1>3, <1>4

\* The ends of an update.
LEMMA EndLines ==
    ASSUME StreamAssumption, RoomForText, TypeOK, LineInv, PollDone \/ Finish
    PROVE  LineInv'
<1> DEFINE e == [char |-> POLL, mode |-> mode]
<1>1. PICK b \in Nat : OpensAt(b) /\ Holds(b)
  BY DEF LineInv
<1>2. CASE PollDone /\ ready
  <2>1. /\ at = "reading" /\ at' = "dispatch"
        /\ inbox' = Append(inbox, Message) /\ input' = Append(input, e)
    BY <1>2 DEF PollDone, NoMore
  <2>2. e \in Items /\ IsBreak(e)
    BY DEF Items, IsBreak, TypeOK
  <2>3. b <= Len(input)
    BY <1>1, <1>2, <2>1 DEF Holds
  <2> HIDE DEF e
  <2> QED BY <1>1, <2>1, <2>2, <2>3, TextEnds DEF LineInv
<1>3. CASE PollDone /\ ~ready
  <2>1. at = "reading" /\ at' = "idle" /\ UNCHANGED <<buffer, index, input, inbox>>
    BY <1>3 DEF PollDone, NoMore
  <2>2. MessagesAreLines' /\ OpensAt(b)'
    BY <1>1, <2>1, SameLines DEF LineInv
  <2>3. Holds(b)'
    BY <1>1, <2>1 DEF Holds, Room
  <2> QED BY <2>2, <2>3 DEF LineInv
<1>4. CASE Finish
  <2>1. /\ at = "dispatch" /\ at' = "idle" /\ index' = 0
        /\ UNCHANGED <<input, inbox>>
    BY <1>4 DEF Finish
  <2>2. b = Len(input) + 1 /\ Len(input) \in Nat
    BY <1>1, <2>1 DEF Holds, TypeOK
  <2>3. Len(input) - b + 1 = 0 /\ Room(0) = 0
    BY <2>2, RoomIs
  <2>4. Holds(b)'
    BY <2>1, <2>3 DEF Holds, Room
  <2>5. OpensAt(b)' /\ MessagesAreLines'
    BY <1>1, <2>1, SameLines DEF LineInv
  <2> QED BY <2>4, <2>5 DEF LineInv
<1> QED BY <1>2, <1>3, <1>4

\* Nothing else touches the buffer, or all begins again.
LEMMA OtherLines ==
    ASSUME StreamAssumption, RoomForText, TypeOK, LineInv,
           \/ BeginUpdate /\ ~ready
           \/ Environment \/ Calls \/ UNCHANGED vars
    PROVE  LineInv'
<1>1. CASE mc_stream_init
  <2>1. at = "idle" /\ at' = at /\ input' = <<>> /\ inbox' = <<>> /\ index' = 0
    BY <1>1 DEF mc_stream_init
  <2>2. Spans' = {}
    BY <2>1 DEF Spans
  <2>3. MessagesAreLines'
    <3>1. Cardinality(Spans') = 0 /\ Len(inbox') = 0
      BY <2>1, <2>2, FS_EmptySet
    <3> QED BY <2>2, <3>1 DEF MessagesAreLines
  <2>4. OpensAt(1)'
    BY <2>1 DEF OpensAt
  <2>5. Room(0) = 0
    BY RoomIs
  <2>6. Holds(1)'
    BY <2>1, <2>5 DEF Holds, Room
  <2> QED BY <2>3, <2>4, <2>6 DEF LineInv
<1>2. CASE ~mc_stream_init
  <2>1. /\ UNCHANGED <<buffer, index, input, inbox, ready>>
        /\ at' = at \/ (at = "idle" /\ at' = "reading" /\ ~ready)
    <3>1. CASE BeginUpdate /\ ~ready
      BY <3>1 DEF BeginUpdate, state, history
    <3>2. CASE Environment
      BY <3>2 DEF Environment, Arrive, HwChanges, state, locals, history
    <3>3. CASE Calls
      BY <1>2, <3>3 DEF Calls, mc_stream_write, mc_stream_get_status, state, locals,
         mc_stream_register_rx_callback, mc_stream_set_mode, history
    <3>4. CASE UNCHANGED vars
      BY <3>4 DEF vars, state, locals, history
    <3> QED BY <3>1, <3>2, <3>3, <3>4
  <2>2. PICK b \in Nat : OpensAt(b) /\ Holds(b)
    BY DEF LineInv
  <2>3. Holds(b)'
    BY <2>1, <2>2 DEF Holds, Room
  <2>4. OpensAt(b)' /\ MessagesAreLines'
    BY <2>1, <2>2, SameLines DEF LineInv
  <2> QED BY <2>3, <2>4 DEF LineInv
<1> QED BY <1>1, <1>2

LEMMA InitLines ==
    ASSUME StreamAssumption, RoomForText, Init
    PROVE  LineInv
<1>1. at = "idle" /\ input = <<>> /\ inbox = <<>> /\ index = 0
  BY DEF Init
<1>2. Spans = {}
  BY <1>1 DEF Spans
<1>3. MessagesAreLines
  <2>1. Cardinality(Spans) = 0 /\ Len(inbox) = 0
    BY <1>1, <1>2, FS_EmptySet
  <2> QED BY <1>2, <2>1 DEF MessagesAreLines
<1>4. Room(0) = 0
  BY RoomIs
<1> QED BY <1>1, <1>3, <1>4 DEF LineInv, OpensAt, Holds

LEMMA StepLines ==
    ASSUME StreamAssumption, RoomForText, IInv, LineInv, [Next]_vars
    PROVE  LineInv'
<1>1. TypeOK /\ ReadyIsBinary /\ (at = "idle" => ~ready)
  BY DEF IInv, ReadyIsBinary
<1>2. CASE StoreChar \/ DropChar
  BY <1>1, <1>2, CharLines
<1>3. CASE ReadDelimiter \/ SkipDelimiter
  BY <1>1, <1>3, DelimiterLines
<1>4. CASE PollDone \/ Finish
  BY <1>1, <1>4, EndLines
<1>5. CASE BeginUpdate \/ Environment \/ Calls \/ UNCHANGED vars
  BY <1>1, <1>5, OtherLines DEF BeginUpdate
<1> QED BY <1>2, <1>3, <1>4, <1>5 DEF Next, Update

\* However the input is split over updates, in whatever mode it is read and
\* whenever the hardware fails, the messages are the lines of the text read,
\* each once and in order, if the buffer has room for one character and the
\* NUL (stream.c:117-158).
THEOREM StreamDelivers == RoomForText => (Spec => []MessagesAreLines)
<1> SUFFICES ASSUME RoomForText PROVE Spec => []MessagesAreLines
  OBVIOUS
<1>1. Init => IInv /\ LineInv
  BY InitSafe, InitLines, StreamAssumption
<1>2. IInv /\ LineInv /\ [Next]_vars => IInv' /\ LineInv'
  BY StepSafe, StepLines, StreamAssumption
<1>3. LineInv => MessagesAreLines
  BY DEF LineInv
<1> QED BY <1>1, <1>2, <1>3, PTL DEF Spec
=============================================================================
