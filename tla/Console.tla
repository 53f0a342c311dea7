------------------------------ MODULE Console ------------------------------
(***************************************************************************)
(* src/core/system/console.c: a line received by the stream names a        *)
(* registered system and a command of it; the console runs the command and *)
(* writes the answer in a frame STX .. ETX.  Every write may fail, and the *)
(* first that does ends the answer: the command has run by then.  A peer   *)
(* collects what comes between STX and ETX.  Lines are given as tokens;    *)
(* newlines and tabs inside a frame are left out.                          *)
(***************************************************************************)
EXTENDS Composite

CONSTANTS
    Entries,        \* config->systems: id, name, system, in order
    Names,          \* the alias names of each leaf, by alias id
    HeaderCount,    \* cells of a dump row
    ArgsCount,      \* size of args_buffer
    Lines           \* the lines a user may send

Token == [text : STRING, letter : STRING, number : SUBSET Int, junk : BOOLEAN]

\* The values that a line writes are values of the devices.
ASSUME ConsoleAssumption ==
    /\ Entries \in Seq([id : Ids, name : STRING, system : Tops])
    /\ HeaderCount \in 0..(MaxSent + 1) /\ ArgsCount \in Ids
    /\ Lines \subseteq [clear : BOOLEAN, help : BOOLEAN, tokens : Seq(Token),
                        echoed : BOOLEAN]
    /\ \A l \in Lines : \A i \in 3..Len(l.tokens) : l.tokens[i].number \subseteq Numbers

VARIABLES
    line,       \* the line in hand
    todo,       \* what is still to be read and written for it
    said,       \* what it tried to write so far
    outcome,    \* "busy", then "done", or "cut" by a failed write
    frame,      \* the peer: what came since the last STX, if no ETX did
    got         \* the peer: the frame that ended since the line began

answer == <<line, todo, said, outcome, frame, got>>
cvars == <<vars, answer>>

\* clear: the first token starts with "clear".  help: "?" before the first
\* token.  echoed: the trimmed line is not empty, nor is its length, cut to a
\* uint8_t, zero.
NoLine == [clear |-> FALSE, help |-> FALSE, tokens |-> <<>>, echoed |-> FALSE]
STX == "STX"
ETX == "ETX"

-----------------------------------------------------------------------------
(* Finding the system and the command                                      *)

\* A token has a text; a letter if it starts with one, and the number that
\* follows the letter, or starts the token: none, or one.
Number(tok) == IF tok.letter = "" THEN tok.number ELSE {}

\* What strtol makes of a token, and of the junk that follows its number.
Arguments(tok) ==
    IF tok.junk /\ Number(tok) # {} THEN <<Number(tok), {}>> ELSE <<Number(tok)>>

find_system_index_by_id(id) ==
    SelectInSeq(Entries, LAMBDA entry : entry.id = id % Byte)

find_system_index_by_name(name) ==
    SelectInSeq(Entries, LAMBDA entry : entry.name = name)

\* "s3" is an id even if a system has that name.
FindSystem(tok) ==
    IF tok.letter = "s" /\ tok.number # {}
    THEN find_system_index_by_id(CHOOSE n \in tok.number : TRUE)
    ELSE find_system_index_by_name(tok.text)

AliasCount(s) == Count[dev.read_only]["alias"][s]

\* The names of the aliases a system offers, given the read-only bits.
AliasNames ==
    [R \in Bits |-> [s \in Tops |->
       [id \in 0..(Count[R]["alias"][s] - 1) |->
          LET at == Dispatch[R]["alias"][s][id] IN Names[at.system][at.id + 1]]]]

AliasName(s, id) == AliasNames[dev.read_only][s][id]

\* Under each registered system every command has a name, and no two share
\* one.  The code does not check it; of two with one name, the first is found.
NamesOf(R, leaves) ==
    [i \in DOMAIN leaves |->
       [m \in 1..LeafCount(R, leaves[i], "alias") |-> Names[leaves[i]][m]]]

NoName == ""

AllDiffer(names) ==
    \A i, j \in DOMAIN names :
      \A m \in DOMAIN names[i], n \in DOMAIN names[j] :
        /\ names[i][m] # NoName
        /\ names[i][m] = names[j][n] => i = j /\ m = n

NamesDiffer ==
    \A R \in Bits : \A entry \in DOMAIN Entries :
      AllDiffer(NamesOf(R, LeafOrder[Entries[entry].system]))

\* Mutant: alias 0 is passed over.
FindFromOne(s, name) ==
    {mc_composite_get_alias[dev.read_only][s][id] : id \in
       {i \in 1..(AliasCount(s) - 1) :
          /\ AliasName(s, i) = name
          /\ \A j \in 1..(i - 1) : AliasName(s, j) # name}}

\* The command of the first alias with that name.
find_command_by_alias(s, name) ==
    {mc_composite_get_alias[dev.read_only][s][id] : id \in
       {i \in 0..(AliasCount(s) - 1) :
          /\ AliasName(s, i) = name
          /\ \A j \in 0..(i - 1) : AliasName(s, j) # name}}

\* x0, y1, f2: the number is cut to a uint8_t.
parse_member_token(tok) ==
    {[type |-> tok.letter, id |-> n % Byte, preset |-> {}] :
       n \in IF tok.letter \in Types THEN tok.number ELSE {}}

\* No command or one: a name comes before a member.
FindCommand(s, tok) ==
    LET custom == find_command_by_alias(s, tok.text)
    IN  IF custom # {} THEN custom ELSE parse_member_token(tok)

-----------------------------------------------------------------------------
(* Answers                                                                 *)

Put(piece) == [do |-> "put", what |-> piece, system |-> Nobody, id |-> 0]
Get(type, s, i) == [do |-> type, what |-> "", system |-> s, id |-> i]
Puts(pieces) == [i \in DOMAIN pieces |-> Put(pieces[i])]

\* A status answered OK prints 0.
send_result(status, value) ==
    IF status # "OK" THEN Puts(<<"E", status>>)
    ELSE Puts(<<IF value = <<>> THEN "0" ELSE ToString(value[1])>>)

Echo(l) == IF l.echoed THEN <<Put("echo")>> ELSE <<>>

Framed(l, jobs) == <<Put(STX)>> \o Echo(l) \o jobs \o <<Put(ETX)>>

send_response(l, status, value) == Framed(l, send_result(status, value))

Row(type, entry) ==
    <<Put(type)>> \o [i \in 1..HeaderCount |-> Get(type, entry.system, i - 1)]

\* Values are read as the dump goes along.
send_system_dump(l, entries) ==
    Framed(l, <<Put("sys")>> \o
              FlattenSeq([i \in DOMAIN entries |->
                            Row("x", entries[i]) \o Row("y", entries[i])]))

\* A name, and the member beside it in the brackets.
Described(R, s, id) ==
    LET info == mc_composite_get_alias[R][s][id]
    IN  AliasNames[R][s][id] \o " " \o info.type \o ToString(info.id)

HelpTexts(R, s) == {Described(R, s, id) : id \in 0..(Count[R]["alias"][s] - 1)}

send_sys_help(l, entry) ==
    Framed(l, <<Put(entry.name)>> \o
              [i \in 1..AliasCount(entry.system) |->
                 Put(Described(dev.read_only, entry.system, i - 1))])

\* What is between the STX and the ETX of an answer.
Pieces ==
    {"echo", "sys", "x", "y", "E", "0", "INVALID_ARGS", "NOT_SUPPORTED", Protected}
    \cup Faults \cup {ToString(n) : n \in Numbers}
    \cup {Entries[i].name : i \in DOMAIN Entries}
    \cup UNION {HelpTexts(R, Entries[i].system) : R \in Bits, i \in DOMAIN Entries}

\* Lines, names and values hold no control character, and what INVALID_ARGS
\* answers is no value, nor a failure of a driver.  "old" is what is left of an
\* answer that was cut short (Old).
ASSUME PiecesAssumption ==
    /\ Pieces \cap {STX, ETX, "old"} = {}
    /\ "INVALID_ARGS" \notin Faults \cup {ToString(n) : n \in Numbers}

-----------------------------------------------------------------------------
(* A line                                                                  *)

Begin(l, jobs) ==
    /\ line' = l
    /\ todo' = jobs
    /\ said' = <<>>
    /\ outcome' = "busy"
    /\ got' = <<>>
    /\ UNCHANGED frame

Say(l, jobs) == Begin(l, jobs) /\ UNCHANGED vars

Reject(l) == Say(l, send_response(l, "INVALID_ARGS", <<>>))

\* Beside a call on the system: its answer, unless a toggle is under way.
Answered(l) ==
    Begin(l, IF pending' = Idle
             THEN send_response(l, reply'.status, reply'.value) ELSE <<>>)

\* Mutant: a value that is no number is written as 0 before it is refused.
WriteUnchecked(l, s, id, rest) ==
    \/ /\ Number(rest[1]) = {}
       /\ WriteAt(To("x", s, id), 0)
       /\ Begin(l, send_response(l, "INVALID_ARGS", <<>>))
    \/ \E val \in Number(rest[1]) : mc_sys_write_input(s, id, val) /\ Answered(l)

UserWrite(l, s, id, rest) ==
    \/ Number(rest[1]) = {} /\ Reject(l)
    \/ \E val \in Number(rest[1]) : mc_sys_write_input(s, id, val) /\ Answered(l)

Input(l, s, cmd, rest) ==
    \/ \E val \in cmd.preset : mc_sys_write_input(s, cmd.id, val) /\ Answered(l)
    \/ cmd.preset = {} /\ rest # <<>> /\ UserWrite(l, s, cmd.id, rest)
    \/ cmd.preset = {} /\ rest = <<>> /\ mc_sys_read_input(s, cmd.id) /\ Answered(l)

\* Arguments past the buffer are dropped; one of the others that is no number
\* refuses the line.  What the arguments are makes no difference to a toggle.
Function(l, s, cmd, rest) ==
    LET args == FlattenSeq([i \in DOMAIN rest |-> Arguments(rest[i])])
        refused == \E i \in DOMAIN args : i <= ArgsCount /\ args[i] = {}
    IN  \/ refused /\ Reject(l)
        \/ ~refused /\ mc_sys_invoke(s, cmd.id) /\ Answered(l)

Execute(l, s, tok, rest) ==
    \/ FindCommand(s, tok) = {} /\ Reject(l)
    \/ \E cmd \in FindCommand(s, tok) :
        \/ cmd.type = "x" /\ Input(l, s, cmd, rest)
        \/ cmd.type = "y" /\ mc_sys_read_output(s, cmd.id) /\ Answered(l)
        \/ cmd.type = "f" /\ Function(l, s, cmd, rest)

\* Five characters are compared and not a token: "clearing" clears too.
IsClear(l) == l.clear

\* Every registered system exists: an entry with none is not modelled.
process_command(l) ==
    LET known == /\ l.tokens # <<>> /\ ~IsClear(l)
                 /\ FindSystem(l.tokens[1]) # 0
        entry == Entries[FindSystem(l.tokens[1])]
    IN  \/ IsClear(l) /\ Say(l, <<Put("clear")>>)
        \/ ~IsClear(l) /\ ~known /\ Reject(l)
        \/ known /\ l.help /\ Say(l, send_sys_help(l, entry))
        \/ /\ known /\ ~l.help /\ Len(l.tokens) = 1
           /\ Say(l, send_system_dump(l, <<entry>>))
        \/ /\ known /\ ~l.help /\ Len(l.tokens) > 1
           /\ Execute(l, entry.system, l.tokens[2],
                      SubSeq(l.tokens, 3, Len(l.tokens)))

\* A line comes from the stream when the one before is finished with.
console_rx_handler == outcome # "busy" /\ \E l \in Lines : process_command(l)

\* The application asks for a dump of all systems: nothing to echo.
mc_sys_console_dump ==
    outcome # "busy" /\ Say(NoLine, send_system_dump(NoLine, Entries))

ToggleAnswered ==
    /\ Toggle
    /\ todo' = send_response(line, reply'.status, reply'.value)
    /\ UNCHANGED <<line, said, outcome, frame, got>>

\* What the peer is left with of an answer cut short.
Old == <<STX, "old">>

\* The peer: STX starts a frame over, ETX ends it.
Received(piece) ==
    CASE piece = STX -> <<STX>>
      [] piece = ETX -> <<>>
      [] OTHER -> IF frame \in {<<>>, Old} THEN frame ELSE Append(frame, piece)

Delivered(piece) ==
    IF piece = ETX /\ frame # <<>> THEN Append(frame, ETX) ELSE got

\* The next write is made; the callback returns after the last.
Proceed(piece) ==
    /\ frame' = Received(piece)
    /\ got' = Delivered(piece)
    /\ todo' = Tail(todo)
    /\ outcome' = IF Tail(todo) = <<>> THEN "done" ELSE "busy"
    /\ line' = IF Tail(todo) = <<>> THEN NoLine ELSE line

Taken == Proceed(Head(todo).what)

\* Mutant: the answer goes on after a failed write.
WriteOn(piece) == Proceed(piece)

\* The write returns an error after it sent that piece: the answer ends.
FailedWith(piece) ==
    /\ frame' = IF Received(piece) = <<>> THEN <<>> ELSE Old
    /\ got' = Delivered(piece)
    /\ todo' = <<>>
    /\ outcome' = "cut"
    /\ line' = NoLine

\* All, part or none of the piece was sent.
Failed == \E piece \in {Head(todo).what, "torn"} : FailedWith(piece)

Writing ==
    /\ todo # <<>> /\ Head(todo).do = "put"
    /\ said' = Append(said, Head(todo).what)
    /\ UNCHANGED vars

WriteNext == Writing /\ (Taken \/ Failed)

\* Mutant: a cell is read over and over.
ReadAgain ==
    /\ todo # <<>> /\ Head(todo).do # "put"
    /\ UNCHANGED <<vars, answer>>

ReadNext ==
    /\ todo # <<>> /\ Head(todo).do # "put"
    /\ LET cell == Head(todo)
       IN  /\ \/ cell.do = "x" /\ mc_sys_read_input(cell.system, cell.id)
              \/ cell.do = "y" /\ mc_sys_read_output(cell.system, cell.id)
           /\ todo' = send_result(reply'.status, reply'.value) \o Tail(todo)
    /\ UNCHANGED <<line, said, outcome, frame, got>>

\* Devices change at any time; the application runs between lines.
Around ==
    /\ Changes \/ (outcome # "busy" /\ Calls)
    /\ UNCHANGED <<target, pending, answer>>

Serve == ToggleAnswered \/ WriteNext \/ ReadNext

ConsoleInit ==
    /\ Init
    /\ line = NoLine /\ todo = <<>> /\ said = <<>> /\ outcome = "done"
    /\ frame = <<>> /\ got = <<>>

ConsoleNext == console_rx_handler \/ mc_sys_console_dump \/ Serve \/ Around

\* mc_stream_update does not return before the callback has: what a line
\* started goes on until it is finished.
ConsoleSpec == ConsoleInit /\ [][ConsoleNext]_cvars /\ WF_cvars(Serve)

-----------------------------------------------------------------------------
(* Properties                                                              *)

ConsoleTypeOK ==
    /\ TypeOK
    /\ line \in Lines \cup {NoLine}
    /\ outcome \in {"busy", "done", "cut"}
    /\ outcome = "busy" <=> todo # <<>> \/ pending # Idle
    /\ frame # <<>> => frame[1] = STX
    /\ outcome # "busy" => line = NoLine

\* A frame that ends is the whole answer to one line: an answer cut short by
\* a failed write, whatever of it got out, is never completed nor mixed with
\* the next; and a line that is done with and was not cut has its frame.
FramesAreWhole ==
    /\ got # <<>> => got = said
    /\ outcome = "done" => got = said \/ said = <<"clear">>

\* What help says of a name is so: the name and the member beside it in the
\* brackets are one command, through every level of the tree and whatever is
\* read-only when the line is sent.
HelpIsTrue ==
    outcome # "busy" => \A i \in DOMAIN Entries :
        LET s == Entries[i].system
        IN  \A id \in 0..(AliasCount(s) - 1) :
              LET info == mc_composite_get_alias[dev.read_only][s][id]
                  named == [text |-> AliasName(s, id), letter |-> "",
                            number |-> {}, junk |-> FALSE]
                  member == [text |-> "", letter |-> info.type,
                             number |-> {info.id}, junk |-> FALSE]
              IN  /\ FindCommand(s, named) = {info}
                  /\ FindCommand(s, member) = {[info EXCEPT !.preset = {}]}

\* A line answered INVALID_ARGS has done nothing: the console and the systems
\* check in different places, all before anything is written.
InvalidMeansUntouched ==
    [][ Put("INVALID_ARGS") \in ToSet(todo') /\ outcome # "busy"
          => UNCHANGED <<dev, target>> ]_cvars

\* Every line is finished with: no row, no cell and no argument holds it up.
EveryLineIsServed == outcome = "busy" ~> outcome # "busy"
=============================================================================
